---- MODULE Spec2Model ----
(***************************************************************************)
(* Pixel GPU DVFS / power integration of the Mali kbase driver             *)
(* (mali_kbase/platform/pixel): the level-lock reconciler, the DVFS        *)
(* control and clock-down workers, the power event hooks, the metrics      *)
(* ledger and the per-UID time-in-state accounting.                        *)
(***************************************************************************)
EXTENDS Integers, Sequences, FiniteSets, TLC

(* ------------------------------------------------------------------ *)
(* Bounds of the exploration                                           *)
(* ------------------------------------------------------------------ *)
MaxTime == 3        \* ktime_get_ns() is explored up to MaxTime
MaxEntries == 1     \* entry counts of the driver's own steps stay within 0..MaxEntries
NumUids == 2        \* application identities with a kernel context
NumSlots == 2       \* job slots (of BASE_JM_MAX_NR_SLOTS)
MaxAtoms == 2       \* atoms in flight at a time, over all slots
MaxCalls == 2       \* direct calls of gpu_dvfs_metrics_update in a row of calls
NumKctxUids == 3    \* UIDs of the processes that create kernel contexts
MaxKctx == 2        \* kernel contexts of one UID alive at a time
MaxRefs == 3        \* runtime-PM references followed above and below zero
MaxRows == 2        \* rows of a device-tree table handed to gpu_dvfs_init

NULL == -1
EINVAL == 22
ENOMEM == 12
ENOENT == 2
\* ktime_get_ns() when gpu_dvfs_metrics_init runs
InitTime == 1

(* ------------------------------------------------------------------ *)
(* The operating point table (gpu_dvfs_table, filled from device tree) *)
(* ------------------------------------------------------------------ *)
gpu_dvfs_table ==
  << [clk0 |-> 900000, util_min |-> 70, util_max |-> 100, hysteresis |-> 3],
     [clk0 |-> 600000, util_min |-> 40, util_max |-> 80,  hysteresis |-> 2],
     [clk0 |-> 300000, util_min |-> 0,  util_max |-> 50,  hysteresis |-> 1] >>

\* table[level] with the C index base
Opp(l) == gpu_dvfs_table[l + 1]

Levels == 0 .. (Len(gpu_dvfs_table) - 1)
Uids == 1 .. NumUids
Slots == 0 .. (NumSlots - 1)

\* utilisation samples reported by the core driver
UtilValues == {30, 60, 90}
\* values written to scaling_min_freq / scaling_max_freq (450000 is no row)
ClockInputs == {900000, 600000, 450000, 300000}
\* payload of a GPU_THROTTLING notification (-1 and Len(table) are invalid)
TmuData == (-1) .. Len(gpu_dvfs_table)

Min(a, b) == IF a < b THEN a ELSE b
Max(a, b) == IF a > b THEN a ELSE b

VARIABLES
  dvfs,           \* pc->dvfs scalar fields (levels, locks, governor, qos, util)
  pm,             \* pc->pm: power domain state, state_lost, on/off metrics
  metrics,        \* pc->dvfs.metrics: last_time, last_power_state, last_level
  table_metrics,  \* pc->dvfs.table[l].metrics
  uid_stats,      \* struct gpu_dvfs_metrics_uid_stats per UID
  js_uid_stats,   \* pc->dvfs.metrics.js_uid_stats[slot]
  control_work,   \* control_work is queued on control_wq
  clockdown_work, \* clockdown_work is pending on clockdown_wq
  now,            \* ktime_get_ns()
  uid_stats_list, \* pc->dvfs.metrics.uid_stats_list, in list order
  exec,           \* work items and calls in progress: their positions
  held,           \* the locks each call path holds
  todo,           \* the lock operations each call path has ahead
  probe,          \* gpu_dvfs_table and pc->dvfs.table after a run of gpu_dvfs_init
  hist            \* history: last operation, its inputs, and reference accounts

vars == << dvfs, pm, metrics, table_metrics, uid_stats, js_uid_stats,
           control_work, clockdown_work, now, uid_stats_list, exec, held, todo,
           probe, hist >>

\* the context list, the executions in progress and the locks
aux == << uid_stats_list, exec, held, todo, probe >>

\* no work item is running and no call is in progress
ExecIdle ==
  [ control    |-> 0,       \* runs of control_work taken off control_wq
    clockdown  |-> FALSE,   \* clockdown_work's timer expired, worker not yet run
    eval       |-> "none",  \* control worker holds the DVFS lock: power status read
    pd         |-> "none",  \* power domain switched, DVFS event hook not yet run
    event_time |-> -1,      \* curr read by gpu_dvfs_metrics_update of a level commit
    next_level |-> -1 ]     \* the level that commit is for

\* the call paths that take locks
Threads == {"eval", "clockdown", "power", "sysfs", "show", "job", "kctx"}

ZeroMetrics == [time_total |-> 0, time_last_entry |-> 0, entry_count |-> 0]

(* ------------------------------------------------------------------ *)
(* gpu_dvfs_init                                                       *)
(* ------------------------------------------------------------------ *)
\* faulty variant: the least performant level taken one past the last row
InitLevelMin_past_end(table_size) == table_size

\* pc->dvfs.level_min = pc->dvfs.table_size - 1
InitLevelMin(table_size) == table_size - 1

\* enum gpu_dvfs_governor_type
GPU_DVFS_GOVERNOR_BASIC == 0
GPU_DVFS_GOVERNOR_COUNT == 1
GPU_DVFS_GOVERNOR_INVALID == 2

\* level_max/min, the scaling locks and the thermal limit as gpu_dvfs_init sets them
gpu_dvfs_init(level_start) ==
  LET table_size == Len(gpu_dvfs_table) IN
  [ table_size        |-> table_size,
    level_max         |-> 0,
    level_min         |-> InitLevelMin(table_size),
    level_scaling_max |-> 0,
    level_scaling_min |-> InitLevelMin(table_size),
    level_tmu_max     |-> 0,
    level             |-> level_start,
    level_target      |-> level_start,
    util              |-> 0,
    gov_delay         |-> Opp(level_start).hysteresis,
    governor_curr     |-> GPU_DVFS_GOVERNOR_BASIC,
    qos_enabled       |-> FALSE,
    qos_level_last    |-> -1 ]

(* ------------------------------------------------------------------ *)
(* gpu_dvfs_update_level_locks: the constraint reconciler             *)
(* ------------------------------------------------------------------ *)
\* faulty variant: the "else if" test is lost, so a level inside the scaling
\* range is marked for level_scaling_min as well
gpu_dvfs_update_level_locks_no_test(d) ==
  LET d1 == IF d.level_scaling_max > d.level_scaling_min
              THEN [d EXCEPT !.level_scaling_max = 0,
                             !.level_scaling_min = d.table_size - 1]
              ELSE d
      d2 == IF d1.level < d1.level_scaling_max
              THEN [d1 EXCEPT !.level_target = d1.level_scaling_max]
              ELSE [d1 EXCEPT !.level_target = d1.level_scaling_min]
      d3 == IF d2.level < d2.level_tmu_max
              THEN [d2 EXCEPT !.level_target = d2.level_tmu_max]
              ELSE d2
  IN d3

\* faulty variant: built without the thermal check
gpu_dvfs_update_level_locks_no_tmu(d) ==
  LET d1 == IF d.level_scaling_max > d.level_scaling_min
              THEN [d EXCEPT !.level_scaling_max = 0,
                             !.level_scaling_min = d.table_size - 1]
              ELSE d
      d2 == IF d1.level < d1.level_scaling_max
              THEN [d1 EXCEPT !.level_target = d1.level_scaling_max]
              ELSE IF d1.level > d1.level_scaling_min
                THEN [d1 EXCEPT !.level_target = d1.level_scaling_min]
                ELSE d1
  IN d2

\* faulty variant: inverted scaling bounds are left as they are
gpu_dvfs_update_level_locks_no_heal(d) ==
  LET d2 == IF d.level < d.level_scaling_max
              THEN [d EXCEPT !.level_target = d.level_scaling_max]
              ELSE IF d.level > d.level_scaling_min
                THEN [d EXCEPT !.level_target = d.level_scaling_min]
                ELSE d
      d3 == IF d2.level < d2.level_tmu_max
              THEN [d2 EXCEPT !.level_target = d2.level_tmu_max]
              ELSE d2
  IN d3

gpu_dvfs_update_level_locks(d) ==
  LET \* Validate that scaling frequencies are in the right order
      d1 == IF d.level_scaling_max > d.level_scaling_min
              THEN [d EXCEPT !.level_scaling_max = 0,
                             !.level_scaling_min = d.table_size - 1]
              ELSE d
      \* Check if the current level needs to be adjusted
      d2 == IF d1.level < d1.level_scaling_max
              THEN [d1 EXCEPT !.level_target = d1.level_scaling_max]
              ELSE IF d1.level > d1.level_scaling_min
                THEN [d1 EXCEPT !.level_target = d1.level_scaling_min]
                ELSE d1
      \* Check if a TMU limit needs to be applied
      d3 == IF d2.level < d2.level_tmu_max
              THEN [d2 EXCEPT !.level_target = d2.level_tmu_max]
              ELSE d2
  IN d3

(* ------------------------------------------------------------------ *)
(* sysfs: scaling_max_freq / scaling_min_freq                          *)
(* ------------------------------------------------------------------ *)
\* the rows of the table whose clk0 is the clock
ClockRows(d, clock) == { i \in 0 .. (d.table_size - 1) : Opp(i).clk0 = clock }

\* faulty variant: a clock that matches no row falls back to row 0
get_level_from_clock_fallback(d, clock) ==
  IF ClockRows(d, clock) = {} THEN 0
  ELSE CHOOSE i \in ClockRows(d, clock) : \A j \in ClockRows(d, clock) : i <= j

\* first row whose clk0 equals the clock, -1 if there is none
get_level_from_clock(d, clock) ==
  IF ClockRows(d, clock) = {} THEN -1
  ELSE CHOOSE i \in ClockRows(d, clock) : \A j \in ClockRows(d, clock) : i <= j

\* faulty variant: the store also commits the marked target as the level
scaling_max_locked_commits(d, level) ==
  LET r == gpu_dvfs_update_level_locks(
             [d EXCEPT !.level_scaling_max = level,
                       !.level_scaling_min = Max(level, d.level_scaling_min)])
  IN [r EXCEPT !.level = r.level_target]

\* faulty variant: the store leaves level_scaling_min where it was
scaling_max_locked_no_clamp(d, level) ==
  gpu_dvfs_update_level_locks([d EXCEPT !.level_scaling_max = level])

\* the body of scaling_max_freq_store under the DVFS lock
scaling_max_locked(d, level) ==
  gpu_dvfs_update_level_locks(
    [d EXCEPT !.level_scaling_max = level,
              !.level_scaling_min = Max(level, d.level_scaling_min)])

\* the body of scaling_min_freq_store under the DVFS lock
scaling_min_locked(d, level) ==
  gpu_dvfs_update_level_locks(
    [d EXCEPT !.level_scaling_min = level,
              !.level_scaling_max = Min(level, d.level_scaling_max)])

(* ------------------------------------------------------------------ *)
(* QOS votes (gpu_dvfs_qos_set / gpu_dvfs_qos_reset)                   *)
(* ------------------------------------------------------------------ *)
\* a vote that enables QOS without recording the level it was taken for
gpu_dvfs_qos_set_no_record(d, level) ==
  [d EXCEPT !.qos_enabled = TRUE]

gpu_dvfs_qos_set(d, level) ==
  IF d.qos_level_last # level
    THEN [d EXCEPT !.qos_level_last = level, !.qos_enabled = TRUE]
    ELSE d

gpu_dvfs_qos_reset(d) ==
  [d EXCEPT !.qos_level_last = -1, !.qos_enabled = FALSE]

(* ------------------------------------------------------------------ *)
(* Metrics ledger                                                      *)
(* A ledger L bundles what gpu_dvfs_metrics_update reads and writes:   *)
(*   level (pc->dvfs.level), m (pc->dvfs.metrics), tm (table metrics), *)
(*   on / off (pc->pm.power_on_metrics / power_off_metrics),           *)
(*   us (per-UID stats), js (js_uid_stats)                             *)
(* ------------------------------------------------------------------ *)
Ledger ==
  [ level |-> dvfs.level, m |-> metrics, tm |-> table_metrics,
    on |-> pm.power_on_metrics, off |-> pm.power_off_metrics,
    us |-> uid_stats, js |-> js_uid_stats ]

\* the for loop of gpu_dvfs_metrics_uid_level_change from slot i on
RECURSIVE uid_level_change_from(_, _, _, _, _)
uid_level_change_from(i, us, js, level, event_time) ==
  IF i >= NumSlots THEN us
  ELSE
    LET u == js[i] IN
    IF u # NULL /\ us[u].period_start # event_time
      THEN uid_level_change_from(i + 1,
             [us EXCEPT ![u].tis[level] = @ + (event_time - us[u].period_start),
                        ![u].period_start = event_time],
             js, level, event_time)
      ELSE uid_level_change_from(i + 1, us, js, level, event_time)

gpu_dvfs_metrics_uid_level_change(us, js, level, event_time) ==
  uid_level_change_from(0, us, js, level, event_time)

\* faulty variant: the entry time is stamped but the entry is not counted
BumpEntry_no_count(b, curr) ==
  [b EXCEPT !.time_last_entry = curr]

\* one more entry into the bucket at time curr
BumpEntry(b, curr) ==
  [b EXCEPT !.entry_count = @ + 1, !.time_last_entry = curr]

\* faulty variant: powered-off time is only credited while the GPU stays off,
\* so the interval that ends with a power-on is lost
gpu_dvfs_metrics_update_off_lost(L, next_level, power_state, curr) ==
  LET level == L.level
      prev == L.m.last_time
      L1 ==
        IF L.m.last_power_state
          THEN
            LET La ==
                  IF power_state
                    THEN IF level # next_level
                           THEN [L EXCEPT
                                  !.tm[next_level] = BumpEntry(@, curr),
                                  !.us = gpu_dvfs_metrics_uid_level_change(
                                           L.us, L.js, level, curr)]
                           ELSE L
                    ELSE [L EXCEPT !.off = BumpEntry(@, curr)]
            IN [La EXCEPT !.tm[level].time_total = @ + (curr - prev),
                          !.on.time_total = @ + (curr - prev)]
          ELSE
            IF power_state
              THEN LET Lc == [L EXCEPT !.on = BumpEntry(@, curr)] IN
                   IF L.m.last_level # next_level
                     THEN [Lc EXCEPT !.tm[next_level] = BumpEntry(@, curr)]
                     ELSE Lc
              ELSE [L EXCEPT !.off.time_total = @ + (curr - prev)]
  IN [L1 EXCEPT !.m = [last_power_state |-> power_state,
                       last_time        |-> curr,
                       last_level       |-> next_level]]

\* faulty variant: the interval spent powered off is also credited to the
\* current level
gpu_dvfs_metrics_update_off_credited(L, next_level, power_state, curr) ==
  LET level == L.level
      prev == L.m.last_time
      L1 ==
        IF L.m.last_power_state
          THEN
            LET La ==
                  IF power_state
                    THEN IF level # next_level
                           THEN [L EXCEPT
                                  !.tm[next_level] = BumpEntry(@, curr),
                                  !.us = gpu_dvfs_metrics_uid_level_change(
                                           L.us, L.js, level, curr)]
                           ELSE L
                    ELSE [L EXCEPT !.off = BumpEntry(@, curr)]
            IN [La EXCEPT !.tm[level].time_total = @ + (curr - prev),
                          !.on.time_total = @ + (curr - prev)]
          ELSE
            LET Lb ==
                  IF power_state
                    THEN LET Lc == [L EXCEPT !.on = BumpEntry(@, curr)] IN
                         IF L.m.last_level # next_level
                           THEN [Lc EXCEPT
                                  !.tm[next_level] = BumpEntry(@, curr)]
                           ELSE Lc
                    ELSE L
            IN [Lb EXCEPT !.off.time_total = @ + (curr - prev),
                          !.tm[level].time_total = @ + (curr - prev)]
  IN [L1 EXCEPT !.m = [last_power_state |-> power_state,
                       last_time        |-> curr,
                       last_level       |-> next_level]]

gpu_dvfs_metrics_update(L, next_level, power_state, curr) ==
  LET level == L.level
      prev == L.m.last_time
      L1 ==
        IF L.m.last_power_state
          THEN
            LET La ==
                  IF power_state
                    THEN \* Power state was ON and is not changing
                      IF level # next_level
                        THEN [L EXCEPT
                               !.tm[next_level] = BumpEntry(@, curr),
                               !.us = gpu_dvfs_metrics_uid_level_change(
                                        L.us, L.js, level, curr)]
                        ELSE L
                    ELSE \* Power status was ON and is turning OFF
                      [L EXCEPT !.off = BumpEntry(@, curr)]
            IN [La EXCEPT !.tm[level].time_total = @ + (curr - prev),
                          !.on.time_total = @ + (curr - prev)]
          ELSE
            LET Lb ==
                  IF power_state
                    THEN \* Power state was OFF and is turning ON
                      LET Lc == [L EXCEPT !.on = BumpEntry(@, curr)] IN
                      IF L.m.last_level # next_level
                        THEN [Lc EXCEPT !.tm[next_level] = BumpEntry(@, curr)]
                        ELSE Lc
                    ELSE L
            IN [Lb EXCEPT !.off.time_total = @ + (curr - prev)]
  IN [L1 EXCEPT !.m = [last_power_state |-> power_state,
                       last_time        |-> curr,
                       last_level       |-> next_level]]

\* every entry counter stays within the explored range
EntriesBounded ==
  /\ \A l \in Levels : table_metrics[l].entry_count <= MaxEntries
  /\ pm.power_on_metrics.entry_count <= MaxEntries
  /\ pm.power_off_metrics.entry_count <= MaxEntries

(* ------------------------------------------------------------------ *)
(* gpu_dvfs_set_new_level: commit of a level while powered on          *)
(* S is the pair [d |-> dvfs, L |-> ledger]                            *)
(* ------------------------------------------------------------------ *)
\* the QOS vote issued after the clocks were programmed
qos_after_rate_change(d, next_level) ==
  IF next_level > d.level THEN gpu_dvfs_qos_set(d, next_level) ELSE d

gpu_dvfs_set_new_level(S, next_level, curr) ==
  LET \* If we are clocking up, update QOS frequencies before GPU frequencies
      d1 == IF next_level < S.d.level
              THEN gpu_dvfs_qos_set(S.d, next_level) ELSE S.d
      L1 == gpu_dvfs_metrics_update(S.L, next_level, TRUE, curr)
      d2 == [d1 EXCEPT !.level = next_level]
      \* If we are clocking down, update QOS frequencies after GPU frequencies
      d3 == qos_after_rate_change(d2, next_level)
  IN [d |-> d3, L |-> [L1 EXCEPT !.level = next_level]]

(* ------------------------------------------------------------------ *)
(* Governor                                                            *)
(* ------------------------------------------------------------------ *)
\* the basic governor: result [level, delay]; delay holds the remaining
\* ticks before a lower throughput level will be set
gpu_dvfs_governor_basic(d, util) ==
  LET level == d.level IN
  IF util > Opp(level).util_max
    THEN \* recommend one level more performant, clamped at level_max
      LET up == Max(level - 1, d.level_max) IN
      [level |-> up, delay |-> Opp(up).hysteresis]
    ELSE IF util < Opp(level).util_min
      THEN \* below the window: count the tick down
        IF d.gov_delay - 1 <= 0
          THEN LET down == Min(level + 1, d.level_min) IN
               [level |-> down, delay |-> Opp(down).hysteresis]
          ELSE [level |-> level, delay |-> d.gov_delay - 1]
      ELSE \* inside the window: hold and restart the count
        [level |-> level, delay |-> Opp(level).hysteresis]

\* the most performant level the scaling lock and the thermal limit permit
LevelCeiling(d) == Max(d.level_scaling_max, d.level_tmu_max)
\* the least performant level permitted (the thermal limit overrides scaling_min)
LevelFloor(d) == Max(d.level_scaling_min, d.level_tmu_max)

\* the governor's recommendation clamped against the scaling/thermal bounds
gpu_dvfs_governor_get_next_level(d, util) ==
  LET rec == gpu_dvfs_governor_basic(d, util) IN
  [ level |-> Min(Max(rec.level, LevelCeiling(d)), LevelFloor(d)),
    delay |-> rec.delay,
    rec   |-> rec.level ]

(* ------------------------------------------------------------------ *)
(* Worker bodies                                                       *)
(* ------------------------------------------------------------------ *)
\* faulty variant: only a more performant target is committed
NeedsLevelChange_up_only(d) == d.level_target < d.level

\* whether the worker commits the target it computed
NeedsLevelChange(d) == d.level_target # d.level

\* faulty variant: the governor is asked twice for one utilisation sample (once
\* for the debug log, once for the target), so its tick count runs twice as fast
control_worker_on_twice(S, curr) ==
  LET first == gpu_dvfs_governor_get_next_level(S.d, S.d.util)
      nxt == gpu_dvfs_governor_get_next_level(
               [S.d EXCEPT !.gov_delay = first.delay], S.d.util)
      d1  == [S.d EXCEPT !.level_target = nxt.level, !.gov_delay = nxt.delay]
      d2  == IF d1.level_target = d1.level /\ ~d1.qos_enabled
               THEN gpu_dvfs_qos_set(d1, d1.level_target) ELSE d1
      S2  == [S EXCEPT !.d = d2]
  IN IF NeedsLevelChange(d2)
       THEN gpu_dvfs_set_new_level(S2, d2.level_target, curr)
       ELSE S2

\* gpu_dvfs_control_worker with the GPU powered on
control_worker_on(S, curr) ==
  LET nxt == gpu_dvfs_governor_get_next_level(S.d, S.d.util)
      d1  == [S.d EXCEPT !.level_target = nxt.level, !.gov_delay = nxt.delay]
      \* QOS was reset while idle and the level is unchanged: request it again
      d2  == IF d1.level_target = d1.level /\ ~d1.qos_enabled
               THEN gpu_dvfs_qos_set(d1, d1.level_target) ELSE d1
      S2  == [S EXCEPT !.d = d2]
  IN IF NeedsLevelChange(d2)
       THEN gpu_dvfs_set_new_level(S2, d2.level_target, curr)
       ELSE S2

\* faulty variant: the evaluation runs whatever the power state
control_worker_ignores_power(S, power, curr) == control_worker_on(S, curr)

\* gpu_dvfs_control_worker under the DVFS lock: nothing is done when
\* gpu_power_status() reports the GPU off
control_worker(S, power, curr) ==
  IF power THEN control_worker_on(S, curr) ELSE S

\* faulty variant: the target is reset but the QOS votes are kept
clockdown_worker_keep_votes(d) ==
  [d EXCEPT !.level_target = d.level_scaling_min]

\* gpu_dvfs_clockdown_worker
clockdown_worker(d) ==
  gpu_dvfs_qos_reset([d EXCEPT !.level_target = d.level_scaling_min])

(* ------------------------------------------------------------------ *)
(* gpu_dvfs_update_asv_table: the table read from the device tree      *)
(* dt is the device tree node: missing (a property cannot be read),    *)
(* row_num and col_num ("gpu_dvfs_table_size"), rows (the clocks of    *)
(* "gpu_dvfs_table_v1/v2")                                              *)
(* ------------------------------------------------------------------ *)
DVFS_TABLE_ROW_MAX == 16
OF_DATA_NUM_MAX == 128
\* columns of a table row (clk0 .. qos.cpu2_max)
TableCols == 10

\* frequency -> voltage maps of the two clock domains (cal_dfs_get_rate_asv_table)
gpu0_vf_map == << [rate |-> 100, volt |-> 700], [rate |-> 200, volt |-> 800] >>
gpu1_vf_map == << [rate |-> 100, volt |-> 650], [rate |-> 300, volt |-> 850] >>

\* clocks a device-tree row can name
DtClocks == {100, 200, 300}
\* row counts for which no row data is enumerated: too many integers, too
\* many rows
OversizeRowNums == {13, 17}

\* the device-tree nodes handed to gpu_dvfs_init
DtInputs ==
  { [missing |-> TRUE, row_num |-> 0, col_num |-> TableCols, rows |-> << >>] }
  \cup { [missing |-> FALSE, row_num |-> n, col_num |-> TableCols, rows |-> << >>] :
           n \in OversizeRowNums }
  \cup UNION { { [missing |-> FALSE, row_num |-> n, col_num |-> TableCols, rows |-> r] :
                   r \in [ 1 .. n -> [clk0 : DtClocks, clk1 : DtClocks] ] } :
               n \in 0 .. MaxRows }

\* find_voltage_for_freq: the volt of the first entry with that rate
find_voltage_for_freq(clock, arr) ==
  LET hits == { i \in 1 .. Len(arr) : arr[i].rate = clock } IN
  IF hits = {} THEN [ret |-> -ENOENT, vol |-> 0]
  ELSE [ret |-> 0, vol |-> arr[CHOOSE i \in hits : \A j \in hits : i <= j].volt]

\* the for loop of gpu_dvfs_update_asv_table from row i on; tbl holds the
\* rows of the static gpu_dvfs_table written so far (the rest is zero)
RECURSIVE asv_rows(_, _, _)
asv_rows(i, tbl, dt) ==
  IF i > dt.row_num THEN [ret |-> dt.row_num, tbl |-> tbl]
  ELSE
    LET raw == [clk0 |-> dt.rows[i].clk0, clk1 |-> dt.rows[i].clk1,
                vol0 |-> 0, vol1 |-> 0]
        v0  == find_voltage_for_freq(raw.clk0, gpu0_vf_map)
        v1  == find_voltage_for_freq(raw.clk1, gpu1_vf_map) IN
    IF v0.ret # 0
      THEN [ret |-> -EINVAL, tbl |-> Append(tbl, raw)]
      ELSE IF v1.ret # 0
        THEN [ret |-> -EINVAL, tbl |-> Append(tbl, [raw EXCEPT !.vol0 = v0.vol])]
        ELSE asv_rows(i + 1,
                      Append(tbl, [raw EXCEPT !.vol0 = v0.vol, !.vol1 = v1.vol]),
                      dt)

\* gpu_dvfs_update_asv_table: the table size, -EINVAL on failure
gpu_dvfs_update_asv_table(dt) ==
  IF dt.missing THEN [ret |-> -EINVAL, tbl |-> << >>]
  ELSE IF dt.row_num > DVFS_TABLE_ROW_MAX THEN [ret |-> -EINVAL, tbl |-> << >>]
  ELSE IF dt.row_num * dt.col_num > OF_DATA_NUM_MAX
    THEN [ret |-> -EINVAL, tbl |-> << >>]
  ELSE asv_rows(1, << >>, dt)

\* before gpu_dvfs_init: gpu_dvfs_table zeroed, pc->dvfs.table not set
ProbeNone ==
  [ gpu_dvfs_table |-> << >>, table_set |-> FALSE, table_size |-> 0, ret |-> 0 ]

\* faulty variant: pc->dvfs.table is set before the table size is tested
gpu_dvfs_init_table_set_first(dt) ==
  LET r == gpu_dvfs_update_asv_table(dt) IN
  [ gpu_dvfs_table |-> r.tbl, table_set |-> TRUE, table_size |-> r.ret,
    ret |-> IF r.ret < 0 THEN -EINVAL ELSE 0 ]

\* gpu_dvfs_init up to pc->dvfs.table = gpu_dvfs_table (the later steps of
\* the initialisation are taken to succeed)
gpu_dvfs_init_table(dt) ==
  LET r == gpu_dvfs_update_asv_table(dt) IN
  IF r.ret < 0
    THEN [ gpu_dvfs_table |-> r.tbl, table_set |-> FALSE, table_size |-> r.ret,
           ret |-> -EINVAL ]
    ELSE [ gpu_dvfs_table |-> r.tbl, table_set |-> TRUE, table_size |-> r.ret,
           ret |-> 0 ]

(* ------------------------------------------------------------------ *)
(* State update helpers                                                *)
(* ------------------------------------------------------------------ *)
\* write a ledger back to the variables it was read from
StoreLedger(L, power, state_lost) ==
  /\ metrics' = L.m
  /\ table_metrics' = L.tm
  /\ uid_stats' = L.us
  /\ pm' = [ power |-> power, state_lost |-> state_lost,
             power_on_metrics |-> L.on, power_off_metrics |-> L.off ]

\* the history after operation op: its input, its result and the governor record
Hist(op, arg, ret) == [hist EXCEPT !.op = op, !.arg = arg, !.ret = ret]

\* jobs of UID u in flight (on any slot)
InFlight(u) == \E s \in Slots : hist.jobs[s][u] > 0
\* f[1] + ... + f[n]
RECURSIVE SumTo(_, _)
SumTo(f, n) == IF n <= 0 THEN 0 ELSE f[n] + SumTo(f, n - 1)
\* atoms in flight on slot s
SlotLoad(s) == SumTo(hist.jobs[s], NumUids)
AnyInFlight == \E u \in Uids : InFlight(u)
\* atoms in flight on all slots
InFlightTotal == SumTo([ t \in 1 .. NumSlots |-> SlotLoad(t - 1) ], NumSlots)

(* ------------------------------------------------------------------ *)
(* Initial state: after gpu_dvfs_init (gpu_dvfs_metrics_init,          *)
(* gpu_dvfs_qos_init, gpu_tmu_init) with a context created per UID     *)
(* ------------------------------------------------------------------ *)
Init ==
  \E level_start \in Levels, power \in BOOLEAN :
    /\ now = InitTime
    /\ dvfs = gpu_dvfs_init(level_start)
    /\ pm = [ power |-> power, state_lost |-> FALSE,
              power_on_metrics |-> ZeroMetrics, power_off_metrics |-> ZeroMetrics ]
    /\ metrics = [ last_power_state |-> power, last_time |-> InitTime, last_level |-> 0 ]
    /\ table_metrics = [ l \in Levels |->
                           IF l = level_start THEN BumpEntry(ZeroMetrics, InitTime)
                                              ELSE ZeroMetrics ]
    /\ uid_stats = [ u \in Uids |->
                       [ atoms_in_flight |-> 0, period_start |-> 0,
                         tis |-> [ l \in Levels |-> 0 ] ] ]
    /\ js_uid_stats = [ s \in Slots |-> NULL ]
    /\ control_work = FALSE
    /\ todo = [ t \in Threads |-> << >> ]
    /\ held = [ t \in Threads |-> {} ]
    /\ exec = ExecIdle
    /\ uid_stats_list = << >>
    /\ probe = ProbeNone
    /\ clockdown_work = FALSE
    /\ hist = [ op |-> "init", arg |-> << >>, ret |-> 0,
                jobs |-> [ s \in Slots |-> [ u \in Uids |-> 0 ] ],
                busy |-> [ u \in Uids |-> [ l \in Levels |-> 0 ] ],
                at |-> level_start, run |-> 0, calls |-> 0,
                lost |-> 0, susp |-> FALSE, due |-> FALSE, seen |-> {},
                rel |-> FALSE, refs |-> IF power THEN 1 ELSE 0 ]

(* ------------------------------------------------------------------ *)
(* Utilisation reports and the DVFS control worker                     *)
(* ------------------------------------------------------------------ *)
\* kbase_platform_dvfs_event: store the sample, queue the control work
DvfsEvent ==
  \E u \in UtilValues :
    /\ dvfs' = [dvfs EXCEPT !.util = u]
    /\ control_work' = TRUE
    /\ hist' = Hist("event", << >>, 1)
    /\ UNCHANGED << aux, pm, metrics, table_metrics, uid_stats, js_uid_stats,
                    clockdown_work, now >>

\* the consecutive below-util_min evaluations at the level, this one included
RunAfterEval(d) ==
  IF d.util < Opp(d.level).util_min
    THEN IF hist.at = d.level /\ hist.run > 0
           THEN Min(hist.run + 1, Opp(d.level).hysteresis + 1)
           ELSE 1
    ELSE 0

\* gpu_dvfs_control_worker; with track the history also records the run of
\* below-util_min evaluations; hist.rel (the clock-down worker has released
\* the QOS votes) lasts until an evaluation keeps the level
ControlWorkerStep(track) ==
  /\ control_work
  /\ control_work' = FALSE
  /\ LET S == control_worker([d |-> dvfs, L |-> Ledger], pm.power, now) IN
       /\ dvfs' = S.d
       /\ StoreLedger(S.L, pm.power, pm.state_lost)
       /\ hist' = IF pm.power
                    THEN IF track
                           THEN [Hist("eval", << >>, 0) EXCEPT
                                   !.at = dvfs.level,
                                   !.run = RunAfterEval(dvfs)]
                           ELSE [Hist("eval", << >>, 0) EXCEPT
                                   !.rel = @ /\ S.d.level # dvfs.level]
                    ELSE Hist("eval_off", << >>, 0)
  /\ EntriesBounded'
  /\ UNCHANGED << aux, js_uid_stats, clockdown_work, now >>

\* gpu_dvfs_control_worker taken from control_wq
ControlWorker == ControlWorkerStep(FALSE)

\* the same worker run, observed together with the governor's run count
GovernorEvaluation == ControlWorkerStep(TRUE)

\* gpu_dvfs_clockdown_worker, run when the delayed work expires
ClockdownWorker ==
  /\ clockdown_work
  /\ clockdown_work' = FALSE
  /\ dvfs' = clockdown_worker(dvfs)
  /\ hist' = [Hist("clockdown", << >>, 0) EXCEPT !.rel = TRUE]
  /\ UNCHANGED << aux, pm, metrics, table_metrics, uid_stats, js_uid_stats,
                  control_work, now >>

(* ------------------------------------------------------------------ *)
(* sysfs stores and the thermal notifier                               *)
(* ------------------------------------------------------------------ *)
\* scaling_max_freq_store
ScalingMaxStore ==
  \E clock \in ClockInputs :
    LET level == get_level_from_clock(dvfs, clock) IN
    /\ IF level < 0
         THEN dvfs' = dvfs /\ hist' = Hist("scaling_max", << clock >>, -EINVAL)
         ELSE /\ dvfs' = scaling_max_locked(dvfs, level)
              /\ hist' = Hist("scaling_max", << clock >>, 0)
    /\ UNCHANGED << aux, pm, metrics, table_metrics, uid_stats, js_uid_stats,
                    control_work, clockdown_work, now >>

\* scaling_min_freq_store
ScalingMinStore ==
  \E clock \in ClockInputs :
    LET level == get_level_from_clock(dvfs, clock) IN
    /\ IF level < 0
         THEN dvfs' = dvfs /\ hist' = Hist("scaling_min", << clock >>, -EINVAL)
         ELSE /\ dvfs' = scaling_min_locked(dvfs, level)
              /\ hist' = Hist("scaling_min", << clock >>, 0)
    /\ UNCHANGED << aux, pm, metrics, table_metrics, uid_stats, js_uid_stats,
                    control_work, clockdown_work, now >>

\* gpu_dvfs_update_level_locks entered by a caller that has set the scaling
\* bounds to any two levels
UpdateLevelLocksCall ==
  \E smax \in Levels, smin \in Levels :
    /\ dvfs' = gpu_dvfs_update_level_locks(
                 [dvfs EXCEPT !.level_scaling_max = smax,
                              !.level_scaling_min = smin])
    /\ hist' = Hist("reconcile", << smax, smin >>, 0)
    /\ UNCHANGED << aux, pm, metrics, table_metrics, uid_stats, js_uid_stats,
                    control_work, clockdown_work, now >>

\* gpu_dvfs_init run on a device-tree node
DvfsInitCall ==
  \E dt \in DtInputs :
    /\ probe' = gpu_dvfs_init_table(dt)
    /\ hist' = Hist("dvfs_init", << dt >>, probe'.ret)
    /\ UNCHANGED << uid_stats_list, exec, held, todo, dvfs, pm, metrics,
                    table_metrics, uid_stats, js_uid_stats, control_work,
                    clockdown_work, now >>

\* names written to the governor attribute
GovernorNames == {"basic", "turbo", ""}

\* gpu_dvfs_governor_get_id: the governor with that name, INVALID if none
gpu_dvfs_governor_get_id(name) ==
  IF name = "basic" THEN GPU_DVFS_GOVERNOR_BASIC ELSE GPU_DVFS_GOVERNOR_INVALID

\* gpu_dvfs_governor_set_governor: result [d, ret]; the switch resets the
\* governor's private state
gpu_dvfs_governor_set_governor(d, gov) ==
  IF gov < 0 \/ gov >= GPU_DVFS_GOVERNOR_COUNT
    THEN [d |-> d, ret |-> -1]
    ELSE [d |-> [d EXCEPT !.governor_curr = gov,
                          !.gov_delay = Opp(d.level).hysteresis],
          ret |-> 0]

\* faulty variant: the id is stored without being checked
governor_store_unchecked(d, gov) ==
  [d |-> [d EXCEPT !.governor_curr = gov], ret |-> 0]

\* the body of governor_store after the name lookup: result [d, ret]
governor_store(d, gov) ==
  IF gov = GPU_DVFS_GOVERNOR_INVALID
    THEN [d |-> d, ret |-> -EINVAL]
    ELSE IF gov # d.governor_curr
      THEN LET r == gpu_dvfs_governor_set_governor(d, gov) IN
           [d |-> r.d, ret |-> IF r.ret # 0 THEN -EINVAL ELSE 0]
      ELSE [d |-> d, ret |-> 0]

\* governor_store
GovernorStore ==
  \E name \in GovernorNames :
    LET r == governor_store(dvfs, gpu_dvfs_governor_get_id(name)) IN
    /\ dvfs' = r.d
    /\ hist' = Hist("governor", << name >>, r.ret)
    /\ UNCHANGED << aux, pm, metrics, table_metrics, uid_stats, js_uid_stats,
                    control_work, clockdown_work, now >>

\* faulty variant: the payload is taken as a level without validation
get_level_from_tmu_data_unchecked(d, data) == data

\* get_level_from_tmu_data
get_level_from_tmu_data(d, data) ==
  IF data >= 0 /\ data < d.table_size THEN data ELSE -1

\* the locked section of gpu_tmu_notifier
tmu_locked(d, level) ==
  gpu_dvfs_update_level_locks([d EXCEPT !.level_tmu_max = level])

\* gpu_tmu_notifier: GPU_COLD, GPU_NORMAL, GPU_THROTTLING(data) or another event
TmuNotifier ==
  \E event \in {"GPU_COLD", "GPU_NORMAL", "GPU_THROTTLING", "OTHER"}, data \in TmuData :
    LET level == IF event = "GPU_THROTTLING"
                   THEN get_level_from_tmu_data(dvfs, data)
                   ELSE dvfs.level_max IN
    /\ event # "GPU_THROTTLING" => data = 0
    /\ IF event = "OTHER"
         THEN dvfs' = dvfs /\ hist' = Hist("tmu_other", << event, data >>, 0)
         ELSE IF level < 0
           THEN dvfs' = dvfs /\ hist' = Hist("tmu_bad", << event, data >>, -1)
           ELSE /\ dvfs' = tmu_locked(dvfs, level)
                /\ hist' = Hist("tmu", << event, data >>, 0)
    /\ UNCHANGED << aux, pm, metrics, table_metrics, uid_stats, js_uid_stats,
                    control_work, clockdown_work, now >>

(* ------------------------------------------------------------------ *)
(* Power callbacks (pm_callbacks of the Pixel integration)             *)
(* ------------------------------------------------------------------ *)
\* result of exynos_pd_power_on / exynos_pd_power_off: 1 transitioned,
\* 0 already in the requested state, negative on failure
PdResult(fail, already) == IF fail THEN -1 ELSE IF already THEN 0 ELSE 1

\* gpu_dvfs_event_power_on under the DVFS lock
event_power_on(L, curr) == gpu_dvfs_metrics_update(L, L.level, TRUE, curr)

\* gpu_dvfs_event_power_off under the DVFS lock
event_power_off(L, curr) == gpu_dvfs_metrics_update(L, L.level, FALSE, curr)

\* faulty variant: the DVFS hook also runs when the domain was already in
\* the requested state
transitioned_or_already(ret) == ret >= 0

\* if (ret == 1): the power domain changed state in this call
transitioned(ret) == ret = 1

\* faulty variant: a failed power-on leaves the state-lost flag alone
gpu_power_on_state_lost_kept_on_error(ret, state_lost) ==
  IF ret < 0 THEN state_lost ELSE FALSE

\* gpu_power_on, label done: pc->pm.state_lost = false
gpu_power_on_state_lost(ret, state_lost) == FALSE

\* pm_callback_power_on -> gpu_power_on; hist.lost is the callback's return
\* value, hist.due whether a suspend was requested since the previous call;
\* with track, hist.refs counts the reference pm_runtime_get_sync takes
PowerOnStep(track) ==
  \E fail \in BOOLEAN :
    LET ret == PdResult(fail, pm.power)
        L   == IF transitioned(ret) THEN event_power_on(Ledger, now) ELSE Ledger IN
    /\ track => hist.refs < MaxRefs
    /\ StoreLedger(L, IF fail THEN pm.power ELSE TRUE,
                   gpu_power_on_state_lost(ret, pm.state_lost))
    /\ clockdown_work' = IF transitioned(ret) THEN FALSE ELSE clockdown_work
    /\ hist' = [Hist("power_on", << >>, ret) EXCEPT
                  !.lost = IF pm.state_lost THEN 1 ELSE 0,
                  !.due = hist.susp, !.susp = FALSE,
                  !.refs = IF track THEN @ + 1 ELSE @]
    /\ EntriesBounded'
    /\ UNCHANGED << aux, dvfs, js_uid_stats, control_work, now >>

PowerOnCallback == PowerOnStep(FALSE)

\* pm_callback_power_on with the runtime-PM reference counted
PmPowerOn == PowerOnStep(TRUE)

\* gpu_power_off(state_lost) as called by the power_off and suspend
\* callbacks; with track, hist.refs counts the reference the callback drops
\* with pm_runtime_put_autosuspend when gpu_power_off returns non-zero
gpu_power_off(op, state_lost, track) ==
  \E fail \in BOOLEAN :
    LET ret == PdResult(fail, ~pm.power)
        L   == IF transitioned(ret) THEN event_power_off(Ledger, now) ELSE Ledger IN
    /\ ~AnyInFlight
    /\ track => hist.refs > -MaxRefs
    /\ StoreLedger(L, IF fail THEN pm.power ELSE FALSE,
                   IF state_lost THEN TRUE ELSE pm.state_lost)
    /\ clockdown_work' = IF transitioned(ret) THEN TRUE ELSE clockdown_work
    /\ hist' = [Hist(op, << >>, ret) EXCEPT
                  !.susp = IF state_lost THEN TRUE ELSE @,
                  !.refs = IF track /\ ret # 0 THEN @ - 1 ELSE @]
    /\ EntriesBounded'
    /\ UNCHANGED << aux, dvfs, js_uid_stats, control_work, now >>

\* pm_callback_power_off
PowerOffCallback == gpu_power_off("power_off", FALSE, FALSE)

\* pm_callback_power_suspend
SuspendCallback == gpu_power_off("suspend", TRUE, FALSE)

\* pm_callback_power_off with the runtime-PM reference counted
PmPowerOff == gpu_power_off("power_off", FALSE, TRUE)

\* a suspend callback that only records the state-lost flag
PmSuspend_flag_only ==
  /\ pm' = [pm EXCEPT !.state_lost = TRUE]
  /\ hist' = [Hist("suspend", << >>, 0) EXCEPT !.susp = TRUE]
  /\ UNCHANGED << aux, dvfs, metrics, table_metrics, uid_stats, js_uid_stats,
                  control_work, clockdown_work, now >>

\* pm_callback_power_suspend with the runtime-PM reference counted
PmSuspend == gpu_power_off("suspend", TRUE, TRUE)

\* time_in_state_show: trigger an update, then print
TimeInStateShow ==
  /\ StoreLedger(gpu_dvfs_metrics_update(Ledger, dvfs.level, pm.power, now),
                 pm.power, pm.state_lost)
  /\ hist' = Hist("show", << >>, 0)
  /\ UNCHANGED << aux, dvfs, js_uid_stats, control_work, clockdown_work, now >>

(* ------------------------------------------------------------------ *)
(* Job start / end notifications                                       *)
(* ------------------------------------------------------------------ *)
gpu_dvfs_metrics_job_start(st, curr) ==
  [st EXCEPT !.period_start = IF st.atoms_in_flight = 0 THEN curr ELSE @,
             !.atoms_in_flight = @ + 1]

\* faulty variant: the elapsed period is only credited when the last atom of
\* the UID ends
gpu_dvfs_metrics_job_end_last_only(st, level, curr) ==
  [st EXCEPT !.atoms_in_flight = @ - 1,
             !.tis[level] = IF st.atoms_in_flight - 1 = 0
                              THEN @ + (curr - st.period_start) ELSE @,
             !.period_start = IF st.atoms_in_flight - 1 = 0 THEN 0 ELSE curr]

\* faulty variant: the interval start is cleared at every job end
gpu_dvfs_metrics_job_end_clears_start(st, level, curr) ==
  [st EXCEPT !.atoms_in_flight = @ - 1,
             !.tis[level] = @ + (curr - st.period_start),
             !.period_start = 0]

gpu_dvfs_metrics_job_end(st, level, curr) ==
  [st EXCEPT !.atoms_in_flight = @ - 1,
             !.tis[level] = @ + (curr - st.period_start),
             !.period_start = IF st.atoms_in_flight - 1 = 0 THEN 0 ELSE curr]

\* an atom of UID u is submitted to slot s
JobStart ==
  \E u \in Uids, s \in Slots :
    /\ pm.power
    /\ InFlightTotal < MaxAtoms
    /\ uid_stats' = [uid_stats EXCEPT ![u] = gpu_dvfs_metrics_job_start(@, now)]
    /\ js_uid_stats' = [js_uid_stats EXCEPT ![s] = u]
    /\ hist' = [Hist("job_start", << >>, 0) EXCEPT !.jobs[s][u] = @ + 1]
    /\ UNCHANGED << aux, dvfs, pm, metrics, table_metrics, control_work,
                    clockdown_work, now >>

\* an atom of UID u stops running on slot s
JobEnd ==
  \E u \in Uids, s \in Slots :
    /\ hist.jobs[s][u] > 0
    /\ uid_stats' = [uid_stats EXCEPT
                       ![u] = gpu_dvfs_metrics_job_end(@, dvfs.level, now)]
    /\ js_uid_stats' = [js_uid_stats EXCEPT ![s] = NULL]
    /\ hist' = [Hist("job_end", << >>, 0) EXCEPT !.jobs[s][u] = @ - 1]
    /\ UNCHANGED << aux, dvfs, pm, metrics, table_metrics, control_work,
                    clockdown_work, now >>

(* ------------------------------------------------------------------ *)
(* Kernel context creation and termination: the per-UID stats list     *)
(* ------------------------------------------------------------------ *)
\* the UIDs of the processes that create contexts
KctxUids == 1 .. NumKctxUids

\* gpu_dvfs_create_uid_stats followed by the first active_kctx_count++
NewUidStats(uid) == [uid |-> uid, active_kctx_count |-> 1]

\* list_add_tail(new, &list[i]): the new entry goes in front of entry i
InsertBefore(list, i, e) ==
  SubSeq(list, 1, i - 1) \o << e >> \o SubSeq(list, i, Len(list))

\* faulty variant: a new block is always appended at the end of the list
RECURSIVE gpu_dvfs_kctx_init_appends(_, _, _, _)
gpu_dvfs_kctx_init_appends(list, i, uid, alloc_fail) ==
  IF i > Len(list)
    THEN IF alloc_fail
           THEN [list |-> list, ret |-> -ENOMEM]
           ELSE [list |-> Append(list, NewUidStats(uid)), ret |-> 0]
    ELSE IF list[i].uid = uid
      THEN [list |-> [list EXCEPT ![i].active_kctx_count = @ + 1], ret |-> 0]
      ELSE gpu_dvfs_kctx_init_appends(list, i + 1, uid, alloc_fail)

\* gpu_dvfs_kctx_init: the list walk from entry i on; result [list, ret]
RECURSIVE gpu_dvfs_kctx_init(_, _, _, _)
gpu_dvfs_kctx_init(list, i, uid, alloc_fail) ==
  IF i > Len(list)
    THEN \* Create and append to the end of the list
      IF alloc_fail
        THEN [list |-> list, ret |-> -ENOMEM]
        ELSE [list |-> Append(list, NewUidStats(uid)), ret |-> 0]
    ELSE IF list[i].uid = uid
      THEN \* Already created
        [list |-> [list EXCEPT ![i].active_kctx_count = @ + 1], ret |-> 0]
      ELSE IF list[i].uid > uid
        THEN \* Create and insert in list
          IF alloc_fail
            THEN [list |-> list, ret |-> -ENOMEM]
            ELSE [list |-> InsertBefore(list, i, NewUidStats(uid)), ret |-> 0]
        ELSE gpu_dvfs_kctx_init(list, i + 1, uid, alloc_fail)

\* gpu_dvfs_kctx_term for a context whose stats block is entry i
gpu_dvfs_kctx_term(list, i) ==
  [list EXCEPT ![i].active_kctx_count = @ - 1]

\* the position of the UID's block in the list, 0 if it has none
StatsIndex(list, uid) ==
  IF \E i \in 1 .. Len(list) : list[i].uid = uid
    THEN CHOOSE i \in 1 .. Len(list) : list[i].uid = uid
    ELSE 0

\* a context is created by a process of UID uid; the allocation may fail
KctxInit ==
  \E uid \in KctxUids, alloc_fail \in BOOLEAN :
    LET r == gpu_dvfs_kctx_init(uid_stats_list, 1, uid, alloc_fail)
        i == StatsIndex(uid_stats_list, uid) IN
    /\ i > 0 => uid_stats_list[i].active_kctx_count < MaxKctx
    /\ uid_stats_list' = r.list
    /\ hist' = [Hist("kctx_init", << uid >>, r.ret) EXCEPT
                  !.seen = IF r.ret = 0 THEN @ \cup {uid} ELSE @]
    /\ UNCHANGED << exec, held, todo, dvfs, pm, metrics, table_metrics,
                    uid_stats, js_uid_stats, control_work, clockdown_work, now,
                    probe >>

\* a context whose creation succeeded is terminated
KctxTerm ==
  \E uid \in KctxUids :
    LET i == StatsIndex(uid_stats_list, uid) IN
    /\ i > 0
    /\ uid_stats_list[i].active_kctx_count > 0
    /\ uid_stats_list' = gpu_dvfs_kctx_term(uid_stats_list, i)
    /\ hist' = Hist("kctx_term", << uid >>, 0)
    /\ UNCHANGED << exec, held, todo, dvfs, pm, metrics, table_metrics,
                    uid_stats, js_uid_stats, control_work, clockdown_work, now,
                    probe >>

(* ------------------------------------------------------------------ *)
(* Time, and direct calls of the exported gpu_dvfs_metrics_update      *)
(* ------------------------------------------------------------------ *)
\* one unit of time passes; the reference account credits it to the level
\* that is active, for every UID with an atom in flight
Tick ==
  /\ now < MaxTime
  /\ now' = now + 1
  /\ hist' = [hist EXCEPT
                !.busy = [ u \in Uids |->
                             IF InFlight(u)
                               THEN [hist.busy[u] EXCEPT ![dvfs.level] = @ + 1]
                               ELSE hist.busy[u] ] ]
  /\ UNCHANGED << aux, dvfs, pm, metrics, table_metrics, uid_stats, js_uid_stats,
                  control_work, clockdown_work >>

\* a level commit while powered on: gpu_dvfs_set_new_level(next_level)
SetNewLevel ==
  \E next_level \in Levels :
    LET S == gpu_dvfs_set_new_level([d |-> dvfs, L |-> Ledger], next_level, now) IN
    /\ pm.power
    /\ next_level # dvfs.level
    /\ dvfs' = [S.d EXCEPT !.level_target = next_level]
    /\ StoreLedger(S.L, pm.power, pm.state_lost)
    /\ hist' = Hist("set_level", << >>, 0)
    /\ EntriesBounded'
    /\ UNCHANGED << aux, js_uid_stats, control_work, clockdown_work, now >>

\* a caller holding the DVFS lock calls gpu_dvfs_metrics_update(next_level, power_state)
MetricsUpdateCall ==
  \E next_level \in Levels, power_state \in BOOLEAN :
    /\ StoreLedger(gpu_dvfs_metrics_update(Ledger, next_level, power_state, now),
                   pm.power, pm.state_lost)
    /\ hist.calls < MaxCalls
    /\ hist' = [Hist("update", <<next_level, IF power_state THEN 1 ELSE 0>>, 0)
                  EXCEPT !.calls = @ + 1]
    /\ UNCHANGED << aux, dvfs, js_uid_stats, control_work, clockdown_work, now >>

(* ------------------------------------------------------------------ *)
(* Work items and calls in progress: the steps between which other     *)
(* contexts run                                                        *)
(* ------------------------------------------------------------------ *)
\* faulty variant: a queued run starts while an earlier run is executing
may_run_concurrent(pending, running) == pending

\* control_wq is created single threaded and a work item does not run
\* concurrently with itself: a pending run starts when none is executing
may_run(pending, running) == pending /\ running = 0

\* control_work is taken off control_wq: gpu_dvfs_control_worker is entered
ControlDequeue ==
  /\ may_run(control_work, exec.control)
  /\ control_work' = FALSE
  /\ exec' = [exec EXCEPT !.control = @ + 1]
  /\ hist' = Hist("dequeue", << >>, 0)
  /\ UNCHANGED << dvfs, pm, metrics, table_metrics, uid_stats, js_uid_stats,
                  clockdown_work, now, uid_stats_list, held, todo, probe >>

\* the entered gpu_dvfs_control_worker runs its locked section and returns
ControlRun ==
  /\ exec.control > 0
  /\ LET S == control_worker([d |-> dvfs, L |-> Ledger], pm.power, now) IN
       /\ dvfs' = S.d
       /\ StoreLedger(S.L, pm.power, pm.state_lost)
  /\ exec' = [exec EXCEPT !.control = @ - 1]
  /\ hist' = Hist(IF pm.power THEN "eval" ELSE "eval_off", << >>, 0)
  /\ EntriesBounded'
  /\ UNCHANGED << js_uid_stats, control_work, clockdown_work, now,
                  uid_stats_list, held, todo, probe >>

\* the timer of clockdown_work expires: the work is no longer pending and
\* gpu_dvfs_clockdown_worker is entered, not yet holding the DVFS lock
ClockdownExpire ==
  /\ clockdown_work
  /\ ~exec.clockdown
  /\ clockdown_work' = FALSE
  /\ exec' = [exec EXCEPT !.clockdown = TRUE]
  /\ hist' = Hist("expire", << >>, 0)
  /\ UNCHANGED << dvfs, pm, metrics, table_metrics, uid_stats, js_uid_stats,
                  control_work, now, uid_stats_list, held, todo, probe >>

\* the entered gpu_dvfs_clockdown_worker runs its locked section
ClockdownRun ==
  /\ exec.clockdown
  /\ dvfs' = clockdown_worker(dvfs)
  /\ exec' = [exec EXCEPT !.clockdown = FALSE]
  /\ hist' = [Hist("clockdown", << >>, 0) EXCEPT !.rel = TRUE]
  /\ UNCHANGED << pm, metrics, table_metrics, uid_stats, js_uid_stats,
                  control_work, clockdown_work, now, uid_stats_list, held, todo,
                  probe >>

\* gpu_dvfs_control_worker takes the DVFS lock and reads gpu_power_status()
EvalCheck ==
  /\ may_run(control_work, exec.control)
  /\ control_work' = FALSE
  /\ exec' = [exec EXCEPT !.control = 1,
                          !.eval = IF pm.power THEN "on" ELSE "off"]
  /\ hist' = Hist("check", << >>, 0)
  /\ UNCHANGED << dvfs, pm, metrics, table_metrics, uid_stats, js_uid_stats,
                  clockdown_work, now, uid_stats_list, held, todo, probe >>

\* the rest of the worker's locked section, with the power status it read
EvalCommit ==
  /\ exec.eval # "none"
  /\ LET S == control_worker([d |-> dvfs, L |-> Ledger], exec.eval = "on", now) IN
       /\ dvfs' = S.d
       /\ StoreLedger(S.L, pm.power, pm.state_lost)
  /\ exec' = [exec EXCEPT !.control = 0, !.eval = "none"]
  /\ hist' = Hist(IF exec.eval = "on" THEN "eval" ELSE "eval_off", << >>, 0)
  /\ EntriesBounded'
  /\ UNCHANGED << js_uid_stats, control_work, clockdown_work, now,
                  uid_stats_list, held, todo, probe >>

\* gpu_power_on / gpu_power_off up to the return of exynos_pd_power_on/off
\* with 1: the domain has changed state, the DVFS event hook is still to run
PdSwitch ==
  \E on \in BOOLEAN :
    /\ exec.pd = "none"
    /\ pm.power # on
    /\ ~on => ~AnyInFlight
    /\ pm' = [pm EXCEPT !.power = on,
                        !.state_lost = IF on THEN FALSE ELSE @]
    /\ exec' = [exec EXCEPT !.pd = IF on THEN "on" ELSE "off"]
    /\ hist' = Hist(IF on THEN "pd_on" ELSE "pd_off", << >>, 1)
    /\ UNCHANGED << dvfs, metrics, table_metrics, uid_stats, js_uid_stats,
                    control_work, clockdown_work, now, uid_stats_list, held, todo,
                    probe >>

\* gpu_dvfs_event_power_on / gpu_dvfs_event_power_off of that call, once the
\* DVFS lock is free
PowerHook ==
  /\ exec.pd # "none"
  /\ exec.eval = "none"
  /\ LET L == IF exec.pd = "on" THEN event_power_on(Ledger, now)
                                ELSE event_power_off(Ledger, now) IN
       StoreLedger(L, pm.power, pm.state_lost)
  /\ clockdown_work' = (exec.pd = "off")
  /\ exec' = [exec EXCEPT !.pd = "none"]
  /\ hist' = Hist(IF exec.pd = "on" THEN "power_on" ELSE "power_off", << >>, 1)
  /\ EntriesBounded'
  /\ UNCHANGED << dvfs, js_uid_stats, control_work, now, uid_stats_list,
                  held, todo, probe >>

\* gpu_dvfs_set_new_level up to "u64 curr = ktime_get_ns()" of its
\* gpu_dvfs_metrics_update: the event time is read, uid_lock not yet taken
LevelCommitBegin ==
  \E next_level \in Levels :
    /\ pm.power
    /\ next_level # dvfs.level
    /\ exec.event_time = -1
    /\ exec' = [exec EXCEPT !.event_time = now, !.next_level = next_level]
    /\ hist' = Hist("stamp", << >>, 0)
    /\ UNCHANGED << dvfs, pm, metrics, table_metrics, uid_stats, js_uid_stats,
                    control_work, clockdown_work, now, uid_stats_list, held, todo,
                    probe >>

\* the rest of that gpu_dvfs_set_new_level, with the event time it read
LevelCommitEnd ==
  /\ exec.event_time # -1
  /\ LET S == gpu_dvfs_set_new_level([d |-> dvfs, L |-> Ledger],
                                     exec.next_level, exec.event_time) IN
       /\ dvfs' = [S.d EXCEPT !.level_target = exec.next_level]
       /\ StoreLedger(S.L, pm.power, pm.state_lost)
  /\ exec' = [exec EXCEPT !.event_time = -1, !.next_level = -1]
  /\ hist' = Hist("set_level", << >>, 0)
  /\ EntriesBounded'
  /\ UNCHANGED << js_uid_stats, control_work, clockdown_work, now,
                  uid_stats_list, held, todo, probe >>

(* ------------------------------------------------------------------ *)
(* Specifications                                                      *)
(* ------------------------------------------------------------------ *)
\* the level locks: sysfs bounds, thermal limit, clock-down, power events
Next ==
  \/ ClockdownWorker
  \/ ScalingMaxStore
  \/ ScalingMinStore
  \/ TmuNotifier
  \/ PowerOnCallback
  \/ PowerOffCallback

Spec == Init /\ [][Next]_vars

\* the metrics ledger over time: power events, level commits, stats reads
NextMetrics ==
  \/ Tick
  \/ SetNewLevel
  \/ PowerOnCallback
  \/ PowerOffCallback
  \/ TimeInStateShow

SpecMetrics == Init /\ [][NextMetrics]_vars

\* per-UID accounting: jobs on the slots, level commits, time
NextUid ==
  \/ Tick
  \/ JobStart
  \/ JobEnd
  \/ SetNewLevel

SpecUid == Init /\ [][NextUid]_vars

\* the control loop under changing bounds
NextControl ==
  \/ DvfsEvent
  \/ ControlWorker
  \/ ScalingMaxStore
  \/ ScalingMinStore
  \/ TmuNotifier

SpecControl == Init /\ [][NextControl]_vars

\* the governor alone: evaluations of utilisation samples
NextGov ==
  \/ DvfsEvent
  \/ GovernorEvaluation
  \/ PowerOnCallback
  \/ PowerOffCallback

SpecGov == Init /\ [][NextGov]_vars

\* gpu_dvfs_metrics_update called with any arguments
NextUpdate ==
  \/ Tick
  \/ MetricsUpdateCall

SpecUpdate == Init /\ [][NextUpdate]_vars

\* power management: power-on, idle power-off and suspend requests, the
\* clock-down timer, level commits and reads of the statistics
NextPower ==
  \/ PowerOnCallback
  \/ PowerOffCallback
  \/ SuspendCallback
  \/ ClockdownWorker
  \/ SetNewLevel
  \/ TimeInStateShow

SpecPower == Init /\ [][NextPower]_vars

\* the governor attribute written while the governor is evaluating samples
NextGovernor ==
  \/ GovernorStore
  \/ DvfsEvent
  \/ GovernorEvaluation
  \/ PowerOnCallback
  \/ PowerOffCallback

SpecGovernor == Init /\ [][NextGovernor]_vars

\* context creation and termination
NextKctx ==
  \/ KctxInit
  \/ KctxTerm

SpecKctx == Init /\ [][NextKctx]_vars

\* utilisation reports against the control work queue
NextQueue ==
  \/ DvfsEvent
  \/ ControlDequeue
  \/ ControlRun
  \/ PowerOnCallback
  \/ PowerOffCallback

SpecQueue == Init /\ [][NextQueue]_vars

\* the clock-down timer against the power callbacks
NextClockdown ==
  \/ PowerOnCallback
  \/ PowerOffCallback
  \/ ClockdownExpire
  \/ ClockdownRun
  \/ SetNewLevel

SpecClockdown == Init /\ [][NextClockdown]_vars

\* the control worker against a power transition
NextEvalRace ==
  \/ DvfsEvent
  \/ EvalCheck
  \/ EvalCommit
  \/ PdSwitch
  \/ PowerHook

SpecEvalRace == Init /\ [][NextEvalRace]_vars

\* a level commit against the job start notifications
NextUidRace ==
  \/ Tick
  \/ JobStart
  \/ LevelCommitBegin
  \/ LevelCommitEnd

SpecUidRace == Init /\ [][NextUidRace]_vars

(* ------------------------------------------------------------------ *)
(* Level locks and the reconciler                                      *)
(* ------------------------------------------------------------------ *)
\* the last operation ran gpu_dvfs_update_level_locks
Reconciled == hist.op \in {"scaling_max", "scaling_min", "tmu"} /\ hist.ret = 0

\* the reconciler found the level outside the scaling range or more
\* performant than the thermal limit (the cases in which it writes level_target)
LevelOutside ==
  \/ dvfs.level < dvfs.level_scaling_max
  \/ dvfs.level > dvfs.level_scaling_min
  \/ dvfs.level < dvfs.level_tmu_max

\* C1: in every reachable state
\* 0 == level_max <= level_scaling_max <= level_scaling_min <= level_min == table_size-1
C1_LevelOrder ==
  /\ dvfs.level_max = 0
  /\ dvfs.level_max <= dvfs.level_scaling_max
  /\ dvfs.level_scaling_max <= dvfs.level_scaling_min
  /\ dvfs.level_scaling_min <= dvfs.level_min
  /\ dvfs.level_min = dvfs.table_size - 1

\* C1 witness: both scaling locks were moved off their initial values by writes
C1_Witness ==
  /\ hist.op = "scaling_min" /\ hist.ret = 0
  /\ dvfs.level_scaling_max = 1
  /\ dvfs.level_scaling_min = 1

\* C2 as stated: immediately after every run of the reconciler level_target
\* lies within [min(level_scaling_max, level_tmu_max), level_scaling_min]
C2_TargetInScalingRange ==
  Reconciled =>
    /\ Min(dvfs.level_scaling_max, dvfs.level_tmu_max) <= dvfs.level_target
    /\ dvfs.level_target <= dvfs.level_scaling_min

\* C2 amended: a run of the reconciler that finds the level outside the scaling
\* range or more performant than the thermal limit leaves level_target within
\* [min(level_scaling_max, level_tmu_max), max(level_scaling_min, level_tmu_max)];
\* any other run leaves level_target as it was
C2_TargetAfterReconcile ==
  [][ Reconciled' =>
        IF LevelOutside'
          THEN /\ Min(dvfs'.level_scaling_max, dvfs'.level_tmu_max) <= dvfs'.level_target
               /\ dvfs'.level_target <= Max(dvfs'.level_scaling_min, dvfs'.level_tmu_max)
          ELSE dvfs'.level_target = dvfs.level_target ]_vars

\* C2 witness: the reconciler marked the level for a thermal limit that is less
\* performant than level_scaling_min
C2_Witness ==
  /\ Reconciled
  /\ dvfs.level < dvfs.level_tmu_max
  /\ dvfs.level_tmu_max > dvfs.level_scaling_min
  /\ dvfs.level_target = dvfs.level_tmu_max

\* the permitted ceiling: the less performant of level_scaling_max and the thermal limit
PermittedCeiling == Max(dvfs.level_scaling_max, dvfs.level_tmu_max)

\* C3: after the reconciler ran, a level more performant than the permitted
\* ceiling is marked for that ceiling, and otherwise a level less performant
\* than level_scaling_min is marked for level_scaling_min
C3_RatchetToIntersection ==
  Reconciled =>
    IF dvfs.level < PermittedCeiling
      THEN dvfs.level_target = PermittedCeiling
      ELSE dvfs.level > dvfs.level_scaling_min =>
             dvfs.level_target = dvfs.level_scaling_min

\* C4: when the thermal limit is less performant than level_scaling_max and the
\* level is more performant than the thermal limit, the reconciler sets
\* level_target to the thermal limit
C4_ThermalCeilingBinds ==
  ( /\ Reconciled
    /\ dvfs.level_tmu_max > dvfs.level_scaling_max
    /\ dvfs.level < dvfs.level_tmu_max )
  => dvfs.level_target = dvfs.level_tmu_max

\* C4 witness (Scenario B): scaling_max = 0, scaling_min = 2, thermal limit 1,
\* level 0, and the thermal notification left level_target = 1
C4_Witness ==
  /\ hist.op = "tmu" /\ hist.ret = 0
  /\ dvfs.level_scaling_max = 0
  /\ dvfs.level_scaling_min = 2
  /\ dvfs.level_tmu_max = 1
  /\ dvfs.level = 0
  /\ dvfs.level_target = 1

(* ------------------------------------------------------------------ *)
(* The control loop under the bounds                                   *)
(* ------------------------------------------------------------------ *)
\* C5: after every evaluation that runs while the GPU is powered on, the
\* committed level is the clamped target: it is not more performant than
\* level_scaling_max nor than the thermal limit, and not less performant than
\* level_scaling_min unless the thermal limit itself is
C5_CommittedWithinBounds ==
  hist.op = "eval" =>
    /\ dvfs.level = dvfs.level_target
    /\ dvfs.level >= dvfs.level_scaling_max
    /\ dvfs.level >= dvfs.level_tmu_max
    /\ dvfs.level_tmu_max <= dvfs.level_scaling_min =>
         dvfs.level <= dvfs.level_scaling_min

\* C5 witness: the GPU started at level 0, the thermal limit was tightened to
\* level 1, and an evaluation of a sample that holds level 0 moved it to level 1
C5_Witness ==
  /\ hist.op = "eval"
  /\ dvfs.util = 90
  /\ dvfs.level_tmu_max = 1
  /\ dvfs.level = 1
  /\ table_metrics[0].entry_count = 1
  /\ table_metrics[1].entry_count = 1
  /\ table_metrics[1].time_last_entry = now

(* ------------------------------------------------------------------ *)
(* The metrics ledger                                                  *)
(* ------------------------------------------------------------------ *)
\* C6: the aggregate powered-on time plus the aggregate powered-off time is
\* the time elapsed between metrics initialization and the last metrics update
C6_TimeConservation ==
  pm.power_on_metrics.time_total + pm.power_off_metrics.time_total
    = metrics.last_time - InitTime

\* C6 witness: an interval was credited to each aggregate, and the updates
\* covered all the time explored
C6_Witness ==
  /\ pm.power_on_metrics.time_total > 0
  /\ pm.power_off_metrics.time_total > 0
  /\ metrics.last_time = MaxTime

(* ------------------------------------------------------------------ *)
(* Per-UID time in state                                               *)
(* ------------------------------------------------------------------ *)
\* the sum of a per-level account over all levels
TotalOverLevels(f) ==
  SumTo([ i \in 1 .. Len(gpu_dvfs_table) |-> f[i - 1] ], Len(gpu_dvfs_table))

\* C7: for a UID with no jobs in flight, the sum over all levels of its
\* per-level time_total is the total time it had at least one job in flight
\* (the window starts at initialization, when both are zero)
C7_UidConservation ==
  \A u \in Uids :
    ~InFlight(u) =>
      TotalOverLevels(uid_stats[u].tis) = TotalOverLevels(hist.busy[u])

\* C7 witness: a UID went idle after being busy at two different levels
C7_Witness ==
  /\ hist.op = "job_end"
  /\ \E u \in Uids, l1, l2 \in Levels :
       /\ ~InFlight(u)
       /\ l1 # l2
       /\ hist.busy[u][l1] > 0
       /\ hist.busy[u][l2] > 0

\* C8: per-UID time is attributed to the level that was active while it
\* accrued: for a UID with no jobs in flight, every per-level time_total is the
\* time the UID was busy while that level was active
C8_UidAttribution ==
  \A u \in Uids :
    ~InFlight(u) =>
      \A l \in Levels : uid_stats[u].tis[l] = hist.busy[u][l]

\* the time totals and entry counts kept by the ledger
Counters ==
  << [ l \in Levels |-> << table_metrics[l].time_total, table_metrics[l].entry_count >> ],
     pm.power_on_metrics.time_total, pm.power_on_metrics.entry_count,
     pm.power_off_metrics.time_total, pm.power_off_metrics.entry_count,
     [ u \in Uids |-> uid_stats[u].tis ] >>

\* C9: a second call of gpu_dvfs_metrics_update with the same
\* (next_level, power_state), immediately after the first and with zero elapsed
\* time, changes no time total and no entry count
C9_UpdateIdempotent ==
  [][ ( /\ hist.op = "update"
        /\ hist'.op = "update"
        /\ hist'.calls = hist.calls + 1
        /\ hist'.arg = hist.arg
        /\ now' = now )
      => Counters' = Counters ]_vars

(* ------------------------------------------------------------------ *)
(* The basic governor                                                  *)
(* ------------------------------------------------------------------ *)
\* C10: after an evaluation at level hist.at that was the hist.run-th
\* consecutive one below util_min (an evaluation not below util_min restarts
\* the count): fewer than hysteresis such evaluations give no less performant
\* target, and the hysteresis-th gives the next less performant level
C10_Hysteresis ==
  hist.op = "eval" =>
    /\ ( 1 <= hist.run /\ hist.run < Opp(hist.at).hysteresis )
         => dvfs.level_target <= hist.at
    /\ hist.run = Opp(hist.at).hysteresis
         => dvfs.level_target = Min(hist.at + 1, dvfs.level_min)

\* C10 witness: the third consecutive evaluation below util_min at level 0
\* (hysteresis 3) moved the target to level 1
C10_Witness ==
  /\ hist.op = "eval"
  /\ hist.at = 0
  /\ hist.run = 3
  /\ dvfs.level_target = 1

C12_QosBeforeClockUp ==
  [][ dvfs'.level < dvfs.level =>
        /\ dvfs'.qos_level_last = dvfs'.level
        /\ dvfs'.qos_enabled ]_vars

C12_Witness ==
  /\ hist.op = "set_level"
  /\ dvfs.qos_enabled
  /\ dvfs.qos_level_last = dvfs.level
  /\ dvfs.level < Len(gpu_dvfs_table) - 1

\* C13: a level change to a less performant level (next > level) leaves the
\* outstanding QOS vote on the new level: when the change returns,
\* qos.level_last equals the committed level
C13_QosAfterClockDown ==
  [][ dvfs'.level > dvfs.level => dvfs'.qos_level_last = dvfs'.level ]_vars

(* ------------------------------------------------------------------ *)
(* Power transitions and the clock-down timer                          *)
(* ------------------------------------------------------------------ *)
\* C14: once the clock-down task has fired, the target level is the scaling
\* minimum and no QOS vote is outstanding (qos.enabled false, level_last -1)
C14_ClockdownResets ==
  hist.op = "clockdown" =>
    /\ dvfs.level_target = dvfs.level_scaling_min
    /\ ~dvfs.qos_enabled
    /\ dvfs.qos_level_last = -1

C14_Witness ==
  /\ hist.op = "clockdown"
  /\ ~pm.power
  /\ pm.power_off_metrics.entry_count = 1
  /\ dvfs.level = 0
  /\ table_metrics[1].entry_count = 1
  /\ dvfs.level_target = Len(gpu_dvfs_table) - 1

\* C15 (Scenario D): when the clock-down timer fires after the idle period,
\* the GPU's level itself is the scaling minimum
C15_LevelForcedToMin ==
  hist.op = "clockdown" => dvfs.level = dvfs.level_scaling_min

\* C16: the powered-off entry count grows by exactly one on a step that takes
\* the GPU from on to off and is unchanged by every other step (clock-down
\* firing, statistics reads, power-off and suspend requests while off)
C16_OffEntryPerTransition ==
  [][ pm'.power_off_metrics.entry_count =
        pm.power_off_metrics.entry_count
          + (IF pm.power /\ ~pm'.power THEN 1 ELSE 0) ]_vars

C16_Witness ==
  /\ hist.op \in {"power_off", "suspend"}
  /\ hist.ret = 0
  /\ pm.power_off_metrics.entry_count = 1

\* the power callbacks
PowerOps == {"power_on", "power_off", "suspend"}

\* C17: a power request whose power-domain primitive reports a transition
\* runs the DVFS event hook (power state recorded, entry counted, clock-down
\* timer cancelled or armed); one that reports "already in that state" or an
\* error leaves the metrics counters and the clock-down timer unchanged
C17_SideEffectsIffTransition ==
  [][ hist'.op \in PowerOps =>
        IF hist'.ret = 1
          THEN /\ metrics'.last_power_state = (hist'.op = "power_on")
               /\ clockdown_work' = (hist'.op # "power_on")
               /\ IF hist'.op = "power_on"
                    THEN pm'.power_on_metrics.entry_count =
                           pm.power_on_metrics.entry_count + 1
                    ELSE pm'.power_off_metrics.entry_count =
                           pm.power_off_metrics.entry_count + 1
          ELSE /\ UNCHANGED << metrics, table_metrics, uid_stats, clockdown_work >>
               /\ pm'.power_on_metrics = pm.power_on_metrics
               /\ pm'.power_off_metrics = pm.power_off_metrics ]_vars

C17_Witness ==
  /\ hist.op = "power_on"
  /\ hist.ret = -1
  /\ clockdown_work
  /\ ~pm.power

\* C18: the power-on callback returns 1 exactly when a suspend was requested
\* since the previous power-on request, whatever the power-domain primitive
\* returned and however many idle power-offs lie in between
C18_StateLostReport ==
  hist.op = "power_on" => hist.lost = (IF hist.due THEN 1 ELSE 0)

C18_Witness ==
  /\ hist.op = "power_on"
  /\ hist.lost = 1
  /\ hist.ret = -1
  /\ pm.power_off_metrics.entry_count = 1

(* ------------------------------------------------------------------ *)
(* Rejected writes to the control surface                              *)
(* ------------------------------------------------------------------ *)
\* C19: a write of an unknown governor name fails with -EINVAL and leaves
\* the active governor, its private state and every other DVFS field as
\* they were
C19_UnknownGovernorRejected ==
  [][ ( hist'.op = "governor" /\ hist'.arg # << "basic" >> ) =>
        /\ hist'.ret = -EINVAL
        /\ dvfs' = dvfs ]_vars

C19_Witness ==
  /\ hist.op = "governor"
  /\ hist.arg = << "turbo" >>
  /\ hist.ret = -EINVAL
  /\ dvfs.governor_curr = GPU_DVFS_GOVERNOR_BASIC
  /\ dvfs.gov_delay < Opp(dvfs.level).hysteresis

\* the clocks of the table's rows
TableClocks == { Opp(l).clk0 : l \in Levels }

\* C20: a scaling_min/scaling_max write of a frequency that matches no table
\* row fails with -EINVAL and leaves level_scaling_min, level_scaling_max,
\* level_target and level as they were
C20_UnknownFrequencyRejected ==
  [][ ( /\ hist'.op \in {"scaling_max", "scaling_min"}
        /\ \A clk \in TableClocks : hist'.arg # << clk >> ) =>
        /\ hist'.ret = -EINVAL
        /\ dvfs'.level_scaling_min = dvfs.level_scaling_min
        /\ dvfs'.level_scaling_max = dvfs.level_scaling_max
        /\ dvfs'.level_target = dvfs.level_target
        /\ dvfs'.level = dvfs.level ]_vars

C20_Witness ==
  /\ hist.op = "scaling_min"
  /\ hist.arg = << 450000 >>
  /\ hist.ret = -EINVAL
  /\ dvfs.level_scaling_max > 0
  /\ dvfs.level_scaling_min < Len(gpu_dvfs_table) - 1

(* ------------------------------------------------------------------ *)
(* Frame conditions of the evaluation and of the bound changes         *)
(* ------------------------------------------------------------------ *)
\* C22: an evaluation that finds the GPU powered off changes nothing: level,
\* level_target, governor state, QOS votes and every metrics counter keep
\* their values
C22_EvalSkippedWhenOff ==
  [][ hist'.op = "eval_off" =>
        /\ dvfs' = dvfs
        /\ UNCHANGED << metrics, table_metrics, uid_stats, js_uid_stats >>
        /\ pm' = pm ]_vars

C22_Witness ==
  /\ hist.op = "eval_off"
  /\ ~pm.power
  /\ pm.power_off_metrics.entry_count = 1
  /\ dvfs.util > Opp(dvfs.level).util_max

\* C28: every UID record has atoms_in_flight >= 0, its period_start is 0
\* exactly when no atom is in flight, and the UID recorded for a job slot has
\* an atom in flight
C28_UidRecordShape ==
  /\ \A u \in Uids :
       /\ uid_stats[u].atoms_in_flight >= 0
       /\ (uid_stats[u].period_start = 0) <=> (uid_stats[u].atoms_in_flight = 0)
  /\ \A s \in Slots :
       js_uid_stats[s] # NULL => uid_stats[js_uid_stats[s]].atoms_in_flight > 0

C28_Witness ==
  /\ hist.op = "job_end"
  /\ \E u \in Uids, s \in Slots :
       /\ uid_stats[u].atoms_in_flight = 1
       /\ uid_stats[u].period_start = now
       /\ now > InitTime
       /\ js_uid_stats[s] = u
       /\ table_metrics[dvfs.level].entry_count = 1
       /\ \E l \in Levels : l # dvfs.level /\ uid_stats[u].tis[l] > 0

\* C30: a scaling_min write, a scaling_max write and a thermal notification
\* leave the active level and the metrics as they were; the level changes
\* only in a step of the evaluation task
C30_BoundsKeepLevel ==
  [][ /\ hist'.op \in {"scaling_max", "scaling_min", "tmu", "tmu_bad", "tmu_other"} =>
           /\ dvfs'.level = dvfs.level
           /\ UNCHANGED << metrics, table_metrics, uid_stats >>
      /\ dvfs'.level # dvfs.level => hist'.op = "eval" ]_vars

C30_Witness ==
  /\ hist.op \in {"scaling_max", "scaling_min", "tmu"}
  /\ hist.ret = 0
  /\ dvfs.level_target # dvfs.level
  /\ LevelOutside

(* ------------------------------------------------------------------ *)
(* The per-UID stats list                                              *)
(* ------------------------------------------------------------------ *)
\* the UIDs that have a block in the list
ListUids == { uid_stats_list[i].uid : i \in 1 .. Len(uid_stats_list) }

\* C29: the stats list is strictly increasing by UID and holds a block for
\* exactly the UIDs for which a context was successfully created; a context
\* for a UID already in the list attaches to its block, a termination only
\* decrements the block's context count, and a failed allocation leaves the
\* list as it was
C29_SortedUidList ==
  /\ [](/\ \A i \in 1 .. Len(uid_stats_list) - 1 :
            uid_stats_list[i].uid < uid_stats_list[i + 1].uid
        /\ ListUids = hist.seen)
  /\ [][ /\ ( hist'.op = "kctx_init" /\ hist'.ret # 0 ) =>
               uid_stats_list' = uid_stats_list
         /\ ( hist'.op = "kctx_init" /\ hist'.arg[1] \in ListUids ) =>
               /\ hist'.ret = 0
               /\ Len(uid_stats_list') = Len(uid_stats_list)
               /\ \A i \in 1 .. Len(uid_stats_list) :
                    /\ uid_stats_list'[i].uid = uid_stats_list[i].uid
                    /\ uid_stats_list'[i].active_kctx_count =
                         uid_stats_list[i].active_kctx_count
                           + (IF uid_stats_list[i].uid = hist'.arg[1] THEN 1 ELSE 0)
         /\ hist'.op = "kctx_term" =>
               /\ Len(uid_stats_list') = Len(uid_stats_list)
               /\ \A i \in 1 .. Len(uid_stats_list) :
                    /\ uid_stats_list'[i].uid = uid_stats_list[i].uid
                    /\ uid_stats_list'[i].active_kctx_count =
                         uid_stats_list[i].active_kctx_count
                           - (IF uid_stats_list[i].uid = hist'.arg[1] THEN 1 ELSE 0) ]_vars

C29_Witness ==
  /\ hist.op = "kctx_init"
  /\ hist.ret = -ENOMEM
  /\ Len(uid_stats_list) = 2
  /\ uid_stats_list[1].uid = 1 /\ uid_stats_list[2].uid = 3
  /\ uid_stats_list[2].active_kctx_count = 0
  /\ uid_stats_list[1].active_kctx_count = 2

(* ------------------------------------------------------------------ *)
(* Interleavings of the work items, the power callbacks and the job    *)
(* notifications                                                       *)
(* ------------------------------------------------------------------ *)
\* C24: the clock-down worker never takes effect while the GPU is powered
\* on: when it has forced level_target and released the QOS votes, the GPU
\* is off
C24_ClockdownOnlyWhileOff ==
  hist.op = "clockdown" => ~pm.power

\* C25: a level is committed (frequency programmed, metrics updated) only
\* while the power domain is on
C25_CommitOnlyWhileOn ==
  [][ dvfs'.level # dvfs.level => pm.power ]_vars

\* C26: every interval added to a per-UID per-level bucket is non-negative,
\* so no bucket ever holds less than the sum of real busy time, in
\* particular never a negative amount
C26_UidIntervalsNonNegative ==
  \A u \in Uids, l \in Levels : uid_stats[u].tis[l] >= 0

\* C27: a utilisation report stores the sample and queues the control work
\* and does nothing else, and at most one run of the control worker is
\* executing at any time
C27_OneEvaluationAtATime ==
  /\ [](exec.control <= 1)
  /\ [][ hist'.op = "event" =>
           /\ dvfs' = [dvfs EXCEPT !.util = dvfs'.util]
           /\ control_work'
           /\ UNCHANGED << pm, metrics, table_metrics, uid_stats, js_uid_stats,
                           clockdown_work, exec >> ]_vars

C27_Witness ==
  /\ hist.op = "event"
  /\ exec.control = 1
  /\ control_work
  /\ pm.power
  /\ dvfs.util > Opp(dvfs.level).util_max

(* ------------------------------------------------------------------ *)
(* Locks taken on each call path                                       *)
(* ------------------------------------------------------------------ *)

\* pc->dvfs.lock, pc->pm.domain->access_lock, pc->dvfs.metrics.uid_lock
Locks == { "dvfs", "access", "uid" }

\* position of a lock in the documented acquisition order
Rank(l) == CASE l = "dvfs" -> 1 [] l = "access" -> 2 [] l = "uid" -> 3

Lock(l) == [ op |-> "lock", l |-> l ]
Unlock(l) == [ op |-> "unlock", l |-> l ]
\* gpu_dvfs_metrics_update reads metrics.last_time (entry) and writes it
\* back with the counters (exit)
UpdateBegin == [ op |-> "update_begin", l |-> "none" ]
UpdateEnd == [ op |-> "update_end", l |-> "none" ]

\* gpu_power_status: the power state is read under the access lock
gpu_power_status_locks == << Lock("access"), Unlock("access") >>

\* gpu_dvfs_metrics_uid_level_change releasing the per-UID lock only after
\* its caller has released the access lock
gpu_dvfs_metrics_uid_level_change_locks_late(rest) ==
  << Lock("uid") >> \o rest \o << Unlock("uid") >>

\* gpu_dvfs_metrics_uid_level_change: the busy UIDs are split under the
\* per-UID lock; rest is what the caller does after the call returns
gpu_dvfs_metrics_uid_level_change_locks(rest) ==
  << Lock("uid"), Unlock("uid") >> \o rest

\* gpu_dvfs_metrics_update takes no lock itself; it reaches the per-UID
\* lock only when the level changes while the power state stays on
gpu_dvfs_metrics_update_locks(split, rest) ==
  << UpdateBegin >> \o
  (IF split THEN gpu_dvfs_metrics_uid_level_change_locks(<< UpdateEnd >> \o rest)
            ELSE << UpdateEnd >> \o rest)

\* gpu_dvfs_set_new_level: frequency programming and metrics update under
\* the access lock
gpu_dvfs_set_new_level_locks(split) ==
  << Lock("access") >> \o
  gpu_dvfs_metrics_update_locks(split, << Unlock("access") >>)

\* gpu_dvfs_control_worker: power check, then possibly a level commit, all
\* under the DVFS lock
gpu_dvfs_control_worker_locks(commit, split) ==
  << Lock("dvfs") >> \o gpu_power_status_locks \o
  (IF commit THEN gpu_dvfs_set_new_level_locks(split) ELSE << >>) \o
  << Unlock("dvfs") >>

\* gpu_dvfs_clockdown_worker
gpu_dvfs_clockdown_worker_locks == << Lock("dvfs"), Unlock("dvfs") >>

\* gpu_dvfs_event_power_on / gpu_dvfs_event_power_off: a metrics update at
\* the unchanged level under the DVFS lock
gpu_dvfs_event_power_locks ==
  << Lock("dvfs") >> \o
  gpu_dvfs_metrics_update_locks(FALSE, << Unlock("dvfs") >>)

\* a core power switch taking the access lock before the DVFS lock
gpu_pm_power_cores_locks_reversed ==
  << Lock("access"), Lock("dvfs"), Unlock("dvfs"), Unlock("access") >> \o
  gpu_dvfs_event_power_locks

\* gpu_pm_power_on_cores / gpu_pm_power_off_cores: the rate is set under
\* the DVFS lock and the access lock, then the event hook runs
gpu_pm_power_cores_locks ==
  << Lock("dvfs"), Lock("access"), Unlock("access"), Unlock("dvfs") >> \o
  gpu_dvfs_event_power_locks

\* scaling_min/max_freq_store and governor_store
sysfs_store_locks == << Lock("dvfs"), Unlock("dvfs") >>

\* a stats reader that triggers the update without the DVFS lock
stats_show_locks_unlocked ==
  gpu_power_status_locks \o gpu_dvfs_metrics_update_locks(FALSE, << >>)

\* time_in_state_show and the other stats readers: power query and metrics
\* update under the DVFS lock
stats_show_locks ==
  << Lock("dvfs") >> \o gpu_power_status_locks \o
  gpu_dvfs_metrics_update_locks(FALSE, << Unlock("dvfs") >>)

\* gpu_dvfs_metrics_job_start / gpu_dvfs_metrics_job_end
job_locks == << Lock("uid"), Unlock("uid") >>

\* gpu_dvfs_kctx_init / gpu_dvfs_kctx_term
kctx_locks == << Lock("uid"), Unlock("uid") >>

\* the lock sequences of the calls a thread of control can make
PathsOf(t) ==
  CASE t = "eval" ->
         { gpu_dvfs_control_worker_locks(c, sp) : c, sp \in BOOLEAN }
    [] t = "clockdown" -> { gpu_dvfs_clockdown_worker_locks }
    [] t = "power" -> { gpu_pm_power_cores_locks, gpu_dvfs_event_power_locks }
    [] t = "sysfs" -> { sysfs_store_locks }
    [] t = "show" -> { stats_show_locks, gpu_power_status_locks }
    [] t = "job" -> { job_locks }
    [] t = "kctx" -> { kctx_locks }

Holder(l) == { t \in Threads : l \in held[t] }

\* t stands at an acquisition of a lock somebody holds
Blocked(t) ==
  /\ todo[t] # << >>
  /\ Head(todo[t]).op = "lock"
  /\ Holder(Head(todo[t]).l) # {}

\* a thread of control enters one of its calls
Call ==
  \E t \in Threads :
    /\ todo[t] = << >>
    /\ \E p \in PathsOf(t) : todo' = [todo EXCEPT ![t] = p]
    /\ UNCHANGED << held, uid_stats_list, exec, dvfs, pm, metrics,
                    table_metrics, uid_stats, js_uid_stats, control_work,
                    clockdown_work, now, hist, probe >>

\* mutex_lock / spin_lock: returns once nobody holds the lock
Acquire ==
  \E t \in Threads :
    /\ todo[t] # << >>
    /\ Head(todo[t]).op = "lock"
    /\ ~Blocked(t)
    /\ held' = [held EXCEPT ![t] = @ \cup { Head(todo[t]).l }]
    /\ todo' = [todo EXCEPT ![t] = Tail(@)]
    /\ UNCHANGED << uid_stats_list, exec, dvfs, pm, metrics, table_metrics,
                    uid_stats, js_uid_stats, control_work, clockdown_work,
                    now, hist, probe >>

\* mutex_unlock / spin_unlock
Release ==
  \E t \in Threads :
    /\ todo[t] # << >>
    /\ Head(todo[t]).op = "unlock"
    /\ held' = [held EXCEPT ![t] = @ \ { Head(todo[t]).l }]
    /\ todo' = [todo EXCEPT ![t] = Tail(@)]
    /\ UNCHANGED << uid_stats_list, exec, dvfs, pm, metrics, table_metrics,
                    uid_stats, js_uid_stats, control_work, clockdown_work,
                    now, hist, probe >>

\* gpu_dvfs_metrics_update is entered or left
UpdateStep ==
  \E t \in Threads :
    /\ todo[t] # << >>
    /\ Head(todo[t]).op \in { "update_begin", "update_end" }
    /\ todo' = [todo EXCEPT ![t] = Tail(@)]
    /\ UNCHANGED << held, uid_stats_list, exec, dvfs, pm, metrics,
                    table_metrics, uid_stats, js_uid_stats, control_work,
                    clockdown_work, now, hist, probe >>

NextLocks == Call \/ Acquire \/ Release \/ UpdateStep

SpecLocks == Init /\ [][NextLocks]_vars

\* C21: every acquisition is of a lock later in the order DVFS lock, access
\* lock, per-UID lock than every lock the path already holds, and no set of
\* paths is ever stuck with each member waiting for a lock held by
\* another member
C21_LockOrderNoDeadlock ==
  /\ \A t \in Threads :
       todo[t] # << >> /\ Head(todo[t]).op = "lock" =>
         \A h \in held[t] : Rank(h) < Rank(Head(todo[t]).l)
  /\ \A D \in (SUBSET Threads) \ { {} } :
       \E t \in D : ~Blocked(t) \/ Holder(Head(todo[t]).l) \cap D = {}

C21_Witness ==
  /\ held["eval"] = { "dvfs", "access", "uid" }
  /\ Blocked("job")
  /\ Blocked("power")
  /\ Blocked("show")

\* C23 (as stated): a path that holds the per-UID lock holds no other lock
C23_UidLockNeverNested ==
  \A t \in Threads : "uid" \in held[t] => held[t] = { "uid" }

\* C23 (amended): the per-UID lock is always the innermost lock: a path
\* holding it acquires no further lock before releasing it, and it holds
\* the per-UID lock either alone (job start/end, context init/term) or
\* inside both the DVFS lock and the access lock (level commit)
C23_UidLockInnermost ==
  \A t \in Threads :
    "uid" \in held[t] =>
      /\ todo[t] # << >>
      /\ Head(todo[t]) = Unlock("uid")
      /\ held[t] \in { { "uid" }, { "dvfs", "access", "uid" } }

C23_Witness ==
  /\ held["eval"] = { "dvfs", "access", "uid" }
  /\ todo["eval"] = << Unlock("uid"), UpdateEnd, Unlock("access"),
                       Unlock("dvfs") >>
  /\ held["job"] = {}
  /\ todo["job"] = job_locks

(* ------------------------------------------------------------------ *)
(* Inverted scaling bounds                                             *)
(* ------------------------------------------------------------------ *)
\* the reconciler entered with any bounds, between level commits and
\* thermal notifications
NextReconcile ==
  \/ UpdateLevelLocksCall
  \/ TmuNotifier
  \/ SetNewLevel

SpecReconcile == Init /\ [][NextReconcile]_vars

\* C31: entered with level_scaling_max > level_scaling_min the reconciler
\* resets the bounds to 0 and table_size - 1 and computes the target from
\* that full range (only the thermal ceiling can still mark the level), and
\* the call completes without an error
C31_SelfHeal ==
  [][ hist'.op = "reconcile" /\ hist'.arg[1] > hist'.arg[2] =>
        /\ dvfs'.level_scaling_max = 0
        /\ dvfs'.level_scaling_min = dvfs.table_size - 1
        /\ dvfs'.level_target = IF dvfs.level < dvfs.level_tmu_max
                                  THEN dvfs.level_tmu_max
                                  ELSE dvfs.level_target
        /\ dvfs' = [dvfs EXCEPT !.level_scaling_max = 0,
                                !.level_scaling_min = dvfs.table_size - 1,
                                !.level_target = dvfs'.level_target]
        /\ hist'.ret = 0 ]_vars

C31_Witness ==
  /\ hist.op = "reconcile"
  /\ hist.arg = << 2, 0 >>
  /\ dvfs.level_scaling_max = 0
  /\ dvfs.level_scaling_min = dvfs.table_size - 1
  /\ dvfs.level = 1

\* C32: a scaling_max write of a table clock is accepted and, when its
\* level is less performant than level_scaling_min, moves level_scaling_min
\* to that level; a scaling_min write more performant than
\* level_scaling_max moves level_scaling_max likewise; the bounds are never
\* inverted, so the reconciler never resets them
C32_StoresKeepBoundsOrdered ==
  /\ [](dvfs.level_scaling_max <= dvfs.level_scaling_min)
  /\ [][ hist'.op = "scaling_max" /\ hist'.arg[1] \in TableClocks =>
           /\ hist'.ret = 0
           /\ dvfs'.level_scaling_max = get_level_from_clock(dvfs, hist'.arg[1])
           /\ dvfs'.level_scaling_min =
                Max(dvfs'.level_scaling_max, dvfs.level_scaling_min) ]_vars
  /\ [][ hist'.op = "scaling_min" /\ hist'.arg[1] \in TableClocks =>
           /\ hist'.ret = 0
           /\ dvfs'.level_scaling_min = get_level_from_clock(dvfs, hist'.arg[1])
           /\ dvfs'.level_scaling_max =
                Min(dvfs'.level_scaling_min, dvfs.level_scaling_max) ]_vars

C32_Witness ==
  /\ hist.op = "scaling_max"
  /\ hist.ret = 0
  /\ dvfs.level_scaling_max = 2
  /\ dvfs.level_scaling_min = 2
  /\ dvfs.level = 0

(* ------------------------------------------------------------------ *)
(* Thermal notifications                                               *)
(* ------------------------------------------------------------------ *)
\* C33: the thermal ceiling always lies in [level_max, level_min]; a
\* throttling notification with a level outside the table is vetoed and
\* changes nothing, a cold or normal notification sets the ceiling to
\* level_max, an accepted throttling notification sets it to its level, an
\* unknown event changes nothing, and every accepted notification leaves
\* level_target reconciled against the new ceiling
C33_ThermalCeilingInRange ==
  /\ [](/\ dvfs.level_max <= dvfs.level_tmu_max
        /\ dvfs.level_tmu_max <= dvfs.level_min)
  /\ [][ hist'.op = "tmu_bad" =>
           /\ hist'.arg[1] = "GPU_THROTTLING"
           /\ hist'.arg[2] \notin 0 .. (dvfs.table_size - 1)
           /\ hist'.ret = -1
           /\ dvfs' = dvfs ]_vars
  /\ [][ hist'.op = "tmu_other" => dvfs' = dvfs ]_vars
  /\ [][ hist'.op = "tmu" =>
           /\ dvfs'.level_tmu_max =
                IF hist'.arg[1] = "GPU_THROTTLING" THEN hist'.arg[2]
                                                   ELSE dvfs.level_max
           /\ dvfs'.level_target =
                IF dvfs.level < dvfs'.level_tmu_max
                  THEN dvfs'.level_tmu_max
                  ELSE IF dvfs.level < dvfs.level_scaling_max
                    THEN dvfs.level_scaling_max
                    ELSE IF dvfs.level > dvfs.level_scaling_min
                      THEN dvfs.level_scaling_min
                      ELSE dvfs.level_target
           /\ dvfs' = [dvfs EXCEPT !.level_tmu_max = dvfs'.level_tmu_max,
                                   !.level_target = dvfs'.level_target] ]_vars

C33_Witness ==
  /\ hist.op = "tmu_bad"
  /\ hist.arg = << "GPU_THROTTLING", 3 >>
  /\ dvfs.level_tmu_max = 1
  /\ dvfs.level_target = 1
  /\ dvfs.level = 0

(* ------------------------------------------------------------------ *)
(* QOS votes after the clock-down                                      *)
(* ------------------------------------------------------------------ *)
\* evaluations between power cycles with the clock-down timer, under a
\* changing thermal ceiling
NextQos ==
  \/ DvfsEvent
  \/ ControlWorker
  \/ PowerOnCallback
  \/ PowerOffCallback
  \/ ClockdownWorker
  \/ TmuNotifier

SpecQos == Init /\ [][NextQos]_vars

\* C34: once the clock-down worker has released the QOS votes, the first
\* evaluation that runs with the GPU on and keeps the level leaves the votes
\* enabled and recorded for the current level
C34_QosReissued ==
  [][ hist'.op = "eval" /\ hist.rel /\ dvfs'.level = dvfs.level =>
        dvfs'.qos_enabled /\ dvfs'.qos_level_last = dvfs'.level ]_vars

(* ------------------------------------------------------------------ *)
(* Power callbacks and the runtime-PM reference                        *)
(* ------------------------------------------------------------------ *)
\* power-on, idle power-off and suspend requests with the clock-down timer
NextPm ==
  \/ PmPowerOn
  \/ PmPowerOff
  \/ PmSuspend
  \/ ClockdownWorker
  \/ Tick

SpecPm == Init /\ [][NextPm]_vars

\* C35: a suspend request acts exactly as an idle power-off request with
\* the same result of the power-domain primitive: from ON (result 1) the
\* domain is released, the metrics are updated with power_state = false, the
\* clock-down work is armed and the runtime-PM reference is dropped; when
\* the GPU is already off (result 0) metrics and clock-down work are left
\* alone; the suspend alone also sets the state-lost flag
C35_SuspendAsPowerOff ==
  [][ hist'.op \in {"power_off", "suspend"} /\ now' = now =>
        /\ pm'.state_lost = (hist'.op = "suspend" \/ pm.state_lost)
        /\ hist'.ret \in {-1, IF pm.power THEN 1 ELSE 0}
        /\ pm'.power = (pm.power /\ hist'.ret # 1)
        /\ hist'.refs = hist.refs - (IF hist'.ret # 0 THEN 1 ELSE 0)
        /\ IF hist'.ret = 1
             THEN /\ clockdown_work'
                  /\ metrics' = [metrics EXCEPT !.last_power_state = FALSE,
                                                !.last_time = now,
                                                !.last_level = dvfs.level]
                  /\ pm'.power_off_metrics.entry_count =
                       pm.power_off_metrics.entry_count + 1
                  /\ pm'.power_on_metrics.time_total =
                       pm.power_on_metrics.time_total + (now - metrics.last_time)
                  /\ table_metrics'[dvfs.level].time_total =
                       table_metrics[dvfs.level].time_total
                         + (now - metrics.last_time)
             ELSE /\ UNCHANGED << metrics, table_metrics, clockdown_work >>
                  /\ pm'.power_on_metrics = pm.power_on_metrics
                  /\ pm'.power_off_metrics = pm.power_off_metrics
        /\ UNCHANGED << dvfs, uid_stats, js_uid_stats, control_work >> ]_vars

C35_Witness ==
  /\ hist.op = "suspend"
  /\ hist.ret = 1
  /\ pm.state_lost
  /\ ~pm.power
  /\ clockdown_work
  /\ pm.power_off_metrics.entry_count = 1
  /\ pm.power_on_metrics.time_total = 2

\* C40: the runtime-PM references taken by power-on and not yet released by
\* power-off or suspend number 1 while the GPU is on and 0 while it is off
C40_RefsBalanced ==
  hist.refs = IF pm.power THEN 1 ELSE 0

(* ------------------------------------------------------------------ *)
(* Construction of the operating point table                           *)
(* ------------------------------------------------------------------ *)
NextProbe == DvfsInitCall

SpecProbe == Init /\ [][NextProbe]_vars

\* the clock has no entry in the frequency -> voltage map
Unresolved(clock, arr) == \A i \in 1 .. Len(arr) : arr[i].rate # clock

\* C36: gpu_dvfs_init fails with -EINVAL when the device tree gives more
\* than 16 rows or a row's clock has no voltage in the map of its domain,
\* and whenever it fails for the table pc->dvfs.table is left unset; when
\* it succeeds the published table has every row with both voltages
C36_TableAllOrNothing ==
  hist.op = "dvfs_init" =>
    LET dt == hist.arg[1] IN
    /\ hist.ret = probe.ret
    /\ ( \/ dt.row_num > DVFS_TABLE_ROW_MAX
         \/ \E i \in 1 .. Len(dt.rows) :
              \/ Unresolved(dt.rows[i].clk0, gpu0_vf_map)
              \/ Unresolved(dt.rows[i].clk1, gpu1_vf_map) )
       => probe.ret = -EINVAL
    /\ probe.ret # 0 => ~probe.table_set
    /\ probe.ret = 0 =>
         /\ probe.table_set
         /\ probe.table_size = dt.row_num
         /\ Len(probe.gpu_dvfs_table) = dt.row_num
         /\ \A i \in 1 .. dt.row_num :
              /\ probe.gpu_dvfs_table[i].clk0 = dt.rows[i].clk0
              /\ probe.gpu_dvfs_table[i].clk1 = dt.rows[i].clk1
              /\ \E j \in 1 .. Len(gpu0_vf_map) :
                   /\ gpu0_vf_map[j].rate = dt.rows[i].clk0
                   /\ gpu0_vf_map[j].volt = probe.gpu_dvfs_table[i].vol0
              /\ \E j \in 1 .. Len(gpu1_vf_map) :
                   /\ gpu1_vf_map[j].rate = dt.rows[i].clk1
                   /\ gpu1_vf_map[j].volt = probe.gpu_dvfs_table[i].vol1

C36_Witness ==
  /\ hist.op = "dvfs_init"
  /\ hist.ret = -EINVAL
  /\ ~probe.table_set
  /\ Len(probe.gpu_dvfs_table) = 2
  /\ probe.gpu_dvfs_table[1].vol1 = 850
  /\ probe.gpu_dvfs_table[2].vol0 = 800
  /\ probe.gpu_dvfs_table[2].vol1 = 0

(* ------------------------------------------------------------------ *)
(* Metrics updates under the DVFS lock                                 *)
(* ------------------------------------------------------------------ *)
\* t has entered gpu_dvfs_metrics_update and not yet left it
InUpdate(t) ==
  \E i \in 1 .. Len(todo[t]) :
    /\ todo[t][i].op = "update_end"
    /\ \A j \in 1 .. (i - 1) : todo[t][j].op # "update_begin"

\* C37: gpu_dvfs_metrics_update is entered and run only with the DVFS lock
\* held, so at most one call path is inside it at any time
C37_UpdatesSerialized ==
  /\ \A t \in Threads :
       ( \/ InUpdate(t)
         \/ (todo[t] # << >> /\ Head(todo[t]).op = "update_begin") )
       => "dvfs" \in held[t]
  /\ \A t1, t2 \in Threads : InUpdate(t1) /\ InUpdate(t2) => t1 = t2

C37_Witness ==
  /\ InUpdate("eval")
  /\ "uid" \in held["eval"]
  /\ Blocked("show")
  /\ Head(todo["show"]) = Lock("dvfs")
  /\ Len(todo["show"]) = 6
  /\ Blocked("power")

(* ------------------------------------------------------------------ *)
(* Per-level time against the powered-on aggregate                     *)
(* ------------------------------------------------------------------ *)
\* C39: the per-level cumulative times add up to the aggregate powered-on
\* time; powered-off time is credited to no level
C39_LevelTimesSumToOnTime ==
  TotalOverLevels([ l \in Levels |-> table_metrics[l].time_total ])
    = pm.power_on_metrics.time_total

\* C39 witness: after a level commit, time was credited to a level that
\* is no longer the current one and to the powered-off aggregate
C39_Witness ==
  /\ \E l \in Levels :
       /\ l # dvfs.level
       /\ table_metrics[l].time_total > 0
       /\ table_metrics[dvfs.level].entry_count > 0
  /\ pm.power_off_metrics.time_total > 0

(* ------------------------------------------------------------------ *)
(* Per-level entry counts against level activations                    *)
(* ------------------------------------------------------------------ *)
\* C38: a level's entry count is the number of times it became the active
\* level: one for the boot level at initialization, one more at each commit
\* of a change to the level, and no change at any other step
C38_EntryCountIsActivations ==
  /\ \A l \in Levels :
       table_metrics[l].entry_count = IF l = dvfs.level THEN 1 ELSE 0
  /\ [][ \A l \in Levels :
           table_metrics'[l].entry_count =
             table_metrics[l].entry_count
               + (IF dvfs'.level # dvfs.level /\ l = dvfs'.level THEN 1 ELSE 0)
       ]_vars

====
